---- MODULE Spec2Model ----
(***************************************************************************)
(* sports-edge: the paper betting agent (ops/scripts/paper_bet_agent.py),  *)
(* the paper bet settlement (ops/scripts/settle_paper_bets.py), the        *)
(* results settlement (ops/scripts/settle_results_v2.py) and the signal    *)
(* generation (ops/scripts/generate_signals_v2.py) as state machines over  *)
(* the database tables they read and write, and the functions of           *)
(* shared/odds_math.py and models/features.py applied to bounded inputs.   *)
(*                                                                         *)
(* Units.  Money is in cents.  edge_percent, max_stake_pct and             *)
(* max_exposure_per_game are in tenths of a percent.  kelly_fraction and   *)
(* the confidence score are in hundredths.  line_value is in half points.  *)
(* ELO ratings are in hundredths of a point, times in minutes.             *)
(* A NULL / None number is None, a NULL string is "null".                  *)
(* The Python code computes in                                             *)
(* binary floating point; the model computes the same expressions over     *)
(* exact fractions <<n, d>> and rounds once, where the code calls round(). *)
(***************************************************************************)
EXTENDS Integers, Sequences, FiniteSets, TLC

VARIABLES
    \* ---- database tables
    paper_betting_strategies,  \* the enabled strategy row the agent loads
    paper_bankroll,            \* the paper_bankroll row: [balance]
    signals,                   \* signals table (joined with games/markets): id -> row
    paper_bets,                \* paper_bets table: sequence of rows, id = index
    paper_bet_decisions,       \* paper_bet_decisions table: sequence of rows
    \* ---- one PaperBettingAgent process (main(): construct, run once)
    agent,                     \* the object: [strategy, bankroll, pending_bets]
    pc,                        \* position of the agent process
    candidates,                \* run(): the list returned by _get_candidate_signals
    idx,                       \* run(): position of the for loop in candidates
    bets_placed,               \* run(): local counter
    max_bets,                  \* run(): argument
    cur,                       \* run(): the tuple returned by make_decision
    runNo,                     \* number of agent processes started so far
    \* ---- database tables of the settlement jobs
    games,                     \* games table: id -> row
    bets,                      \* bets table (settle_results_v2): sequence of rows
    clv_history,               \* clv_history table: sequence of rows
    team_elos,                 \* team_elos table: team id -> row
    \* ---- one settlement process at a time (PaperBetSettlement.run or
    \* ---- settle_results_v2.main)
    spc,                       \* position of the settlement process
    todo,                      \* the list the process loops over
    sidx,                      \* position of its for loop
    tally,                     \* its counters (settled_count, totals)
    settleNo,                  \* number of settlement processes started so far
    \* ---- one signal generation process (generate_signals_v2.main)
    now,                       \* the clock, in minutes
    gpc,                       \* position of the generation process
    league,                    \* main(): position of the for loop over leagues
    loaded,                    \* main(): the list load_upcoming_games returned
    gidx,                      \* main(): position of the for loop over games
    genNo,                     \* number of generation processes started so far
    all_signals,               \* main(): the signals saved so far, with their ids
    \* ---- one call of a function of the library
    arg,                       \* the arguments of the call
    out,                       \* what the call returned or left behind
    applied                    \* how many times the function has been applied

agentVars == <<agent, pc, candidates, idx, bets_placed, max_bets, cur, runNo>>
dbVars == <<paper_betting_strategies, paper_bankroll, signals, paper_bets,
            paper_bet_decisions>>
settleDbVars == <<games, bets, clv_history, team_elos>>
settleVars == <<spc, todo, sidx, tally, settleNo>>
genVars == <<now, gpc, league, loaded, gidx, genNo, all_signals>>
calcVars == <<arg, out, applied>>
vars == <<dbVars, agentVars, settleDbVars, settleVars, genVars, calcVars>>

\* ------------------------------------------------------------------ bounds
NumSignals == 3
MaxRuns == 2

\* Python None where the code returns or stores None for a stake
None == -999999

\* ---------------------------------------------------------------- helpers
Min(a, b) == IF a <= b THEN a ELSE b
Abs(a) == IF a < 0 THEN -a ELSE a

RECURSIVE GCD(_, _)
GCD(a, b) == IF b = 0 THEN a ELSE GCD(b, a % b)

\* exact fractions <<n, d>>, n >= 0, d > 0, kept in lowest terms
Norm(f) == LET g == GCD(f[1], f[2]) IN IF g = 0 THEN <<0, 1>> ELSE <<f[1] \div g, f[2] \div g>>
FMul(f, n, d) == LET a == Norm(<<f[1], d>>)
                     b == Norm(<<n, f[2]>>)
                 IN  Norm(<<a[1] * b[1], a[2] * b[2]>>)
FLess(f, g) == f[1] * g[2] < g[1] * f[2]
FMin(f, g) == IF FLess(g, f) THEN g ELSE f

\* Python round() on an exact value: nearest integer, a tie to the even one.
\* (On an exact tie the binary float the code rounds may lie on either side of
\* the tie; none of the live inputs below produces a tie.)
Round(f) ==
    LET q == f[1] \div f[2]
        r == f[1] % f[2]
    IN  IF 2 * r < f[2] THEN q
        ELSE IF 2 * r > f[2] THEN q + 1
        ELSE IF q % 2 = 0 THEN q ELSE q + 1

RECURSIVE SumSeq(_)
SumSeq(s) == IF s = <<>> THEN 0 ELSE Head(s) + SumSeq(Tail(s))

\* sum(float(bet['stake']) for bet in s)
StakeTotal(s) == SumSeq([i \in 1..Len(s) |-> s[i].stake])




\* ======================================================================
\* PaperBettingAgent: the decision functions
\* ======================================================================

\* 'moneyline' in market or 'h2h' in market, on the lower-cased market name
IsMoneylineName(market) == market \in {"moneyline", "h2h"}
IsSpreadName(market) == market \in {"spread", "handicap"}

\* _get_clv_bonus: signal.avg_clv is AVG(clv_percent) of the signal's
\* sportsbook/market over 30 days, in hundredths of a percent; None when there
\* is no row with a CLV.  A zero average is falsy in Python.
get_clv_bonus(signal) ==
    IF signal.avg_clv # None /\ signal.avg_clv # 0
    THEN IF signal.avg_clv > 200 THEN 20
         ELSE IF signal.avg_clv > 100 THEN 15
         ELSE IF signal.avg_clv > 0 THEN 10
         ELSE 5
    ELSE 5

\* calculate_confidence_score, in hundredths
calculate_confidence_score(signal) ==
    LET edge == signal.edge_percent
        f1 == IF edge >= 100 THEN 30
              ELSE IF edge >= 70 THEN 25
              ELSE IF edge >= 50 THEN 20
              ELSE IF edge >= 30 THEN 15
              ELSE 10
        f2 == IF signal.confidence_level = "high" THEN 30
              ELSE IF signal.confidence_level = "medium" THEN 20
              ELSE 10
        f3 == get_clv_bonus(signal)
        f4 == IF signal.hours_until_game <= 24 THEN 5
              ELSE IF signal.hours_until_game <= 48 THEN 8
              ELSE 10
        f5 == IF IsMoneylineName(signal.market_name) THEN 10
              ELSE IF IsSpreadName(signal.market_name) THEN 8
              ELSE 5
    IN  Min(100, f1 + f2 + f3 + f4 + f5)

\* assess_correlation_risk against the agent's own pending_bets list.  The rows
\* of that list come from _get_pending_bets (pb.*, g.sport, g.scheduled_at):
\* bet.get('home_team_id') is the row's home_team_id field, None when absent.
assess_correlation_risk_teams_only(ag, signal) ==
    LET same_team_count == Len(SelectSeq(ag.pending_bets, LAMBDA bet :
            \/ bet.home_team_id \in {signal.home_team_id, signal.away_team_id}
            \/ bet.away_team_id \in {signal.home_team_id, signal.away_team_id}))
    IN  IF same_team_count >= 2 THEN "medium" ELSE "low"

assess_correlation_risk(ag, signal) ==
    LET same_game_count == Len(SelectSeq(ag.pending_bets, LAMBDA bet : bet.game_id = signal.game_id))
        same_team_count == Len(SelectSeq(ag.pending_bets, LAMBDA bet :
            \/ bet.home_team_id \in {signal.home_team_id, signal.away_team_id}
            \/ bet.away_team_id \in {signal.home_team_id, signal.away_team_id}))
    IN  IF same_game_count > 0 THEN "high"
        ELSE IF same_team_count >= 2 THEN "medium"
        ELSE "low"

\* edge / (odds_decimal - 1) as a fraction: edge is edge_percent / 100, and
\* odds_decimal - 1 is a/100 for a > 0 and 100/|a| otherwise
kelly_fraction_raw(signal) ==
    IF signal.odds_american > 0
    THEN FMul(<<signal.edge_percent, 1000>>, 100, signal.odds_american)
    ELSE FMul(<<signal.edge_percent, 1000>>, Abs(signal.odds_american), 100)

\* the unrounded kelly stake, in cents
kelly_stake_exact(ag, signal) ==
    FMul(FMul(kelly_fraction_raw(signal), ag.strategy.kelly_fraction, 100),
         ag.bankroll.balance, 1)

\* balance * (max_stake_pct / 100), in cents
max_stake(ag) == Norm(<<ag.bankroll.balance * ag.strategy.max_stake_pct, 1000>>)

\* calculate_stake returns (kelly_stake, actual_stake), both rounded to cents
calculate_stake(ag, signal, confidence_score) ==
    LET kelly == kelly_stake_exact(ag, signal)
        adjusted == FMul(kelly, confidence_score, 100)
        actual == FMin(adjusted, max_stake(ag))
    IN  <<Round(kelly), Round(actual)>>

\* balance * (max_exposure_per_game / 100), in cents
max_game_exposure(ag) ==
    Norm(<<ag.bankroll.balance * ag.strategy.max_exposure_per_game, 1000>>)

\* check_exposure_limits returns (allowed, reason); the reason names the limit
check_exposure_limits(ag, signal, stake) ==
    LET current_game_exposure ==
            StakeTotal(SelectSeq(ag.pending_bets, LAMBDA bet : bet.game_id = signal.game_id))
        total_game_exposure == current_game_exposure + stake
        today_bets == Len(SelectSeq(ag.pending_bets, LAMBDA bet : bet.placed_today))
        total_pending_stake == StakeTotal(ag.pending_bets)
    IN  IF FLess(max_game_exposure(ag), <<total_game_exposure, 1>>)
        THEN <<FALSE, "Game exposure limit">>
        ELSE IF /\ ag.strategy.max_daily_bets # None
                /\ ag.strategy.max_daily_bets # 0
                /\ today_bets >= ag.strategy.max_daily_bets
        THEN <<FALSE, "Daily bet limit">>
        ELSE IF 10 * (total_pending_stake + stake) > 3 * ag.bankroll.balance
        THEN <<FALSE, "Total exposure limit">>
        ELSE <<TRUE, "Within limits">>

\* make_decision returns (decision, reasoning, confidence_score, kelly_stake,
\* actual_stake); the reasoning is kept as its leading tag
make_decision(ag, signal) ==
    LET confidence_score == calculate_confidence_score(signal)
        correlation_risk == assess_correlation_risk(ag, signal)
        stakes == calculate_stake(ag, signal, confidence_score)
        kelly_stake == stakes[1]
        actual_stake == stakes[2]
        limits == check_exposure_limits(ag, signal, actual_stake)
    IN  IF correlation_risk = "high"
        THEN [decision |-> "skip", reasoning |-> "High correlation risk",
              confidence_score |-> confidence_score,
              kelly_stake |-> None, actual_stake |-> None]
        ELSE IF actual_stake < 100
        THEN [decision |-> "skip", reasoning |-> "Calculated stake below minimum",
              confidence_score |-> confidence_score,
              kelly_stake |-> kelly_stake, actual_stake |-> None]
        ELSE IF ~limits[1]
        THEN [decision |-> "skip", reasoning |-> limits[2],
              confidence_score |-> confidence_score,
              kelly_stake |-> kelly_stake, actual_stake |-> actual_stake]
        ELSE [decision |-> "place", reasoning |-> "PLACE",
              confidence_score |-> confidence_score,
              kelly_stake |-> kelly_stake, actual_stake |-> actual_stake]


\* ======================================================================
\* PaperBettingAgent: the database queries
\* ======================================================================

NoAgent == [strategy |-> <<>>, bankroll |-> <<>>, pending_bets |-> <<>>]
NoDecision == <<>>

\* SELECT ... FROM paper_bets WHERE status = 'pending' (a subsequence of the table)
RECURSIVE PendingRows(_)
PendingRows(tbl) ==
    IF tbl = <<>> THEN <<>>
    ELSE IF Head(tbl).status = "pending"
         THEN <<Head(tbl)>> \o PendingRows(Tail(tbl))
         ELSE PendingRows(Tail(tbl))

\* _get_pending_bets: pb.*, g.sport, g.scheduled_at of the pending bets.  The
\* rows carry no home_team_id / away_team_id column: bet.get(...) gives None.
get_pending_bets(tbl) ==
    LET rows == PendingRows(tbl)
    IN  [i \in 1..Len(rows) |->
            rows[i] @@ [home_team_id |-> None, away_team_id |-> None]]

\* confidence_order in _get_candidate_signals
confidence_order(level) ==
    IF level = "low" THEN 1 ELSE IF level = "medium" THEN 2 ELSE 3

\* the WHERE clause of _get_candidate_signals.  s.live stands for
\* status = 'active' AND expires_at > NOW() AND scheduled_at within 7 days.
IsCandidate_all(strat, tbl, s) ==
    /\ s.live
    /\ s.edge_percent >= strat.min_edge
    /\ confidence_order(s.confidence_level) >= confidence_order(strat.min_confidence)

IsCandidate(strat, tbl, s) ==
    /\ s.live
    /\ s.edge_percent >= strat.min_edge
    /\ confidence_order(s.confidence_level) >= confidence_order(strat.min_confidence)
    /\ ~ \E i \in 1..Len(tbl) : tbl[i].status = "pending" /\ tbl[i].signal_id = s.id

\* ORDER BY s.edge_percent DESC, s.confidence_level DESC: the second key is the
\* text column, so it sorts 'medium' > 'low' > 'high'
ConfidenceText(level) ==
    IF level = "medium" THEN 3 ELSE IF level = "low" THEN 2 ELSE 1

OrderedBefore(a, b) ==
    \/ a.edge_percent > b.edge_percent
    \/ /\ a.edge_percent = b.edge_percent
       /\ ConfidenceText(a.confidence_level) >= ConfidenceText(b.confidence_level)

\* every list _get_candidate_signals may return: the rows passing the WHERE
\* clause, each once, in an order the ORDER BY allows (ties in any order).
\* LIMIT 100 cuts nothing off a table of NumSignals rows.
get_candidate_signals(strat, sigs, tbl) ==
    LET ids == {i \in DOMAIN sigs : IsCandidate(strat, tbl, sigs[i])}
        n == Cardinality(ids)
    IN  {q \in [1..n -> ids] :
            /\ \A i, j \in 1..n : i # j => q[i] # q[j]
            /\ \A i, j \in 1..n : i < j => OrderedBefore(sigs[q[i]], sigs[q[j]])}


\* ======================================================================
\* PaperBettingAgent: main() = __init__ then run(max_bets), one process at a
\* time (the jobs are serialised by the scheduler)
\* ======================================================================

\* __init__: load the strategy, the bankroll row and the pending bets
Construct ==
    /\ pc = "idle"
    /\ runNo < MaxRuns
    /\ agent' = [strategy |-> paper_betting_strategies,
                 bankroll |-> paper_bankroll,
                 pending_bets |-> get_pending_bets(paper_bets)]
    /\ runNo' = runNo + 1
    /\ pc' = "constructed"
    /\ UNCHANGED <<genVars, calcVars, settleDbVars, settleVars, dbVars, candidates, idx, bets_placed, max_bets, cur>>

\* run(max_bets): signals = self._get_candidate_signals(); if not signals:
\* return (max_bets is not read on this path)
RunNoSignals ==
    /\ pc = "constructed"
    /\ get_candidate_signals(agent.strategy, signals, paper_bets) = {<<>>}
    /\ pc' = "done"
    /\ UNCHANGED <<genVars, calcVars, settleDbVars, settleVars, dbVars, agent, candidates, idx, bets_placed, max_bets, cur, runNo>>

RunFetch ==
    /\ pc = "constructed"
    /\ \E q \in get_candidate_signals(agent.strategy, signals, paper_bets) :
          /\ q # <<>>
          /\ candidates' = q
    /\ \E mb \in {1, 10} : max_bets' = mb
    /\ idx' = 1
    /\ bets_placed' = 0
    /\ pc' = "loop"
    /\ UNCHANGED <<genVars, calcVars, settleDbVars, settleVars, dbVars, agent, cur, runNo>>

\* for signal in signals: if bets_placed >= max_bets: break
LoopBreak ==
    /\ pc = "loop"
    /\ idx <= Len(candidates)
    /\ bets_placed >= max_bets
    /\ pc' = "done"
    /\ UNCHANGED <<genVars, calcVars, settleDbVars, settleVars, dbVars, agent, candidates, idx, bets_placed, max_bets, cur, runNo>>

LoopEnd ==
    /\ pc = "loop"
    /\ idx > Len(candidates)
    /\ pc' = "done"
    /\ UNCHANGED <<genVars, calcVars, settleDbVars, settleVars, dbVars, agent, candidates, idx, bets_placed, max_bets, cur, runNo>>

\* log_decision: INSERT INTO paper_bet_decisions.  run is not a column: it
\* records which agent process wrote the row.
log_decision_place_only(tbl, signal, d, correlation_risk, run) ==
    IF d.decision = "place"
    THEN Append(tbl, [signal_id |-> signal.id, decision |-> d.decision,
                      reasoning |-> d.reasoning,
                      confidence_score |-> d.confidence_score,
                      kelly_stake |-> d.kelly_stake, actual_stake |-> d.actual_stake,
                      correlation_risk |-> correlation_risk, run |-> run])
    ELSE tbl

log_decision(tbl, signal, d, correlation_risk, run) ==
    Append(tbl, [signal_id |-> signal.id, decision |-> d.decision,
                 reasoning |-> d.reasoning,
                 confidence_score |-> d.confidence_score,
                 kelly_stake |-> d.kelly_stake, actual_stake |-> d.actual_stake,
                 correlation_risk |-> correlation_risk, run |-> run])

\* the status column of a new paper_bets row: the INSERT does not set it, the
\* table's default does
DefaultBetStatus == "pending"

\* place_paper_bet: INSERT INTO paper_bets ... RETURNING id.  run is not a
\* column; placed_today stands for placed_at = NOW().
place_paper_bet(tbl, signal, stake, run) ==
    Append(tbl, [id |-> Len(tbl) + 1, signal_id |-> signal.id, stake |-> stake,
                 odds_american |-> signal.odds_american,
                 game_id |-> signal.game_id, market_name |-> signal.market_name,
                 selection |-> signal.selection,
                 status |-> DefaultBetStatus, result |-> "null",
                 profit_loss |-> None, placed_today |-> TRUE, run |-> run])

\* loop body, first half: make_decision, assess_correlation_risk, log_decision
Evaluate ==
    /\ pc = "loop"
    /\ idx <= Len(candidates)
    /\ bets_placed < max_bets
    /\ LET signal == signals[candidates[idx]]
           d == make_decision(agent, signal)
           correlation_risk == assess_correlation_risk(agent, signal)
       IN  /\ cur' = d
           /\ paper_bet_decisions' =
                 log_decision(paper_bet_decisions, signal, d, correlation_risk, runNo)
    /\ pc' = "logged"
    /\ UNCHANGED <<genVars, calcVars, settleDbVars, settleVars, paper_betting_strategies, paper_bankroll, signals, paper_bets,
                   agent, candidates, idx, bets_placed, max_bets, runNo>>

\* if decision == 'place' and actual_stake:
ShouldPlace_always(d) == TRUE
ShouldPlace(d) == d.decision = "place" /\ d.actual_stake # None /\ d.actual_stake # 0

\* run() after place_paper_bet: neither self.pending_bets nor self.bankroll is
\* assigned; the object keeps what __init__ loaded
view_after_place_requery(ag, tbl) == [ag EXCEPT !.pending_bets = get_pending_bets(tbl)]
view_after_place(ag, tbl) == ag

\* loop body, second half: place_paper_bet, bets_placed += 1
PlaceBet ==
    /\ pc = "logged"
    /\ ShouldPlace(cur)
    /\ paper_bets' = place_paper_bet(paper_bets, signals[candidates[idx]],
                                     cur.actual_stake, runNo)
    /\ agent' = view_after_place(agent, paper_bets')
    /\ bets_placed' = bets_placed + 1
    /\ idx' = idx + 1
    /\ pc' = "loop"
    /\ UNCHANGED <<genVars, calcVars, settleDbVars, settleVars, paper_betting_strategies, paper_bankroll,
                   signals, paper_bet_decisions, candidates, max_bets, cur, runNo>>

SkipBet ==
    /\ pc = "logged"
    /\ ~ShouldPlace(cur)
    /\ idx' = idx + 1
    /\ pc' = "loop"
    /\ UNCHANGED <<genVars, calcVars, settleDbVars, settleVars, dbVars, agent, candidates, bets_placed, max_bets, cur, runNo>>

\* the process ends; the next scheduled job starts from a fresh object
Exit ==
    /\ pc = "done"
    /\ pc' = "idle"
    /\ agent' = NoAgent
    /\ candidates' = <<>>
    /\ idx' = 0
    /\ bets_placed' = 0
    /\ max_bets' = 0
    /\ cur' = NoDecision
    /\ UNCHANGED <<genVars, calcVars, settleDbVars, settleVars, dbVars, runNo>>

\* ---------------------------------------------------------------- inputs

\* games 1 and 2 carry signals; game 3 only carries an older bet
GameTeams(g) == IF g = 1 THEN <<1, 2>> ELSE IF g = 2 THEN <<1, 3>> ELSE <<4, 5>>

Profiles ==
    << [market_name |-> "moneyline", odds_american |-> -150, edge_percent |-> 120,
        confidence_level |-> "high", avg_clv |-> 250, hours_until_game |-> 12,
        selection |-> "home", line_value |-> None, live |-> TRUE],
       [market_name |-> "total", odds_american |-> 150, edge_percent |-> 30,
        confidence_level |-> "low", avg_clv |-> None, hours_until_game |-> 72,
        selection |-> "over", line_value |-> 82, live |-> TRUE],
       [market_name |-> "spread", odds_american |-> -110, edge_percent |-> 20,
        confidence_level |-> "medium", avg_clv |-> 50, hours_until_game |-> 36,
        selection |-> "home", line_value |-> -14, live |-> TRUE],
       [market_name |-> "moneyline", odds_american |-> 120, edge_percent |-> 60,
        confidence_level |-> "high", avg_clv |-> 150, hours_until_game |-> 30,
        selection |-> "away", line_value |-> None, live |-> FALSE] >>

SignalRow(i, g, p) ==
    [id |-> i, game_id |-> g, home_team_id |-> GameTeams(g)[1],
     away_team_id |-> GameTeams(g)[2], market_name |-> p.market_name,
     odds_american |-> p.odds_american, edge_percent |-> p.edge_percent,
     confidence_level |-> p.confidence_level, avg_clv |-> p.avg_clv,
     hours_until_game |-> p.hours_until_game, selection |-> p.selection,
     line_value |-> p.line_value, clv_percent |-> None, live |-> p.live]

\* the signals on offer, as <<game, profile>>: the moneyline, the total and
\* the spread on either game, and the expired moneyline on game 1
SignalOptions ==
    << <<1, 1>>, <<2, 1>>, <<1, 2>>, <<2, 2>>, <<1, 3>>, <<2, 3>>, <<1, 4>> >>

\* every table of NumSignals different signals drawn from SignalOptions, up to
\* renumbering the ids (the ids carry no meaning; the query returns ties in
\* any order)
SignalTables ==
    LET choices == {c \in [1..NumSignals -> 1..Len(SignalOptions)] :
                       \A i, j \in 1..NumSignals : i < j => c[i] < c[j]}
    IN  {[i \in 1..NumSignals |->
             SignalRow(i, SignalOptions[c[i]][1], Profiles[SignalOptions[c[i]][2]])] :
         c \in choices}

Strategies ==
    { [name |-> "Conservative", min_edge |-> 30, min_confidence |-> "low",
       kelly_fraction |-> 25, max_stake_pct |-> 10, max_exposure_per_game |-> 50,
       max_daily_bets |-> None],
      [name |-> "Aggressive", min_edge |-> 20, min_confidence |-> "medium",
       kelly_fraction |-> 50, max_stake_pct |-> 50, max_exposure_per_game |-> 40,
       max_daily_bets |-> 2] }

Balances == {100060, 10000}

\* a paper_bankroll row with no settled bet: balance = starting_balance
BankrollRow(b) ==
    [balance |-> b, starting_balance |-> b, total_bets |-> 0, total_staked |-> 0,
     total_profit_loss |-> 0, roi_percent |-> 0, win_count |-> 0,
     loss_count |-> 0, push_count |-> 0, win_rate |-> 0]

\* bets placed by earlier runs on signals that have since expired (signal 0)
OlderBet(i, g, stake, today) ==
    [id |-> i, signal_id |-> 0, stake |-> stake, odds_american |-> -110,
     game_id |-> g, market_name |-> "moneyline", selection |-> "home",
     status |-> "pending", result |-> "null", profit_loss |-> None,
     placed_today |-> today, run |-> 0]

OlderBets ==
    { <<>>,
      <<OlderBet(1, 1, 2000, FALSE), OlderBet(2, 1, 2900, TRUE)>>,
      <<OlderBet(1, 1, 100, TRUE), OlderBet(2, 1, 100, TRUE),
        OlderBet(3, 3, 28800, FALSE)>> }

Init ==
    /\ paper_betting_strategies \in Strategies
    /\ paper_bankroll \in {BankrollRow(b) : b \in Balances}
    /\ signals \in SignalTables
    /\ paper_bets \in OlderBets
    /\ paper_bet_decisions = <<>>
    /\ agent = NoAgent
    /\ pc = "idle"
    /\ candidates = <<>>
    /\ idx = 0
    /\ bets_placed = 0
    /\ max_bets = 0
    /\ cur = NoDecision
    /\ runNo = 0
    /\ games = <<>>
    /\ bets = <<>>
    /\ clv_history = <<>>
    /\ team_elos = <<>>
    /\ spc = "idle"
    /\ todo = <<>>
    /\ sidx = 0
    /\ tally = <<>>
    /\ settleNo = 0
    /\ now = 0
    /\ gpc = "idle"
    /\ league = 0
    /\ loaded = <<>>
    /\ gidx = 0
    /\ genNo = 0
    /\ all_signals = <<>>
    /\ arg = <<>>
    /\ out = <<>>
    /\ applied = 0

Next ==
    \/ Construct
    \/ RunNoSignals
    \/ RunFetch
    \/ LoopBreak
    \/ LoopEnd
    \/ Evaluate
    \/ PlaceBet
    \/ SkipBet
    \/ Exit

Spec == Init /\ [][Next]_vars


\* ======================================================================
\* PaperBetSettlement (settle_paper_bets.py)
\* ======================================================================

MaxSettleRuns == 2

\* round(x, 2) of a signed value n / d (d > 0), in the unit of n
RoundS(n, d) == IF n < 0 THEN -Round(<<-n, d>>) ELSE Round(<<n, d>>)

\* the odds_snapshots table, read by both settlement jobs: the last snapshot
\* before the start of the game for a game and market, None when there is none
odds_snapshots(game_id, market_name) ==
    IF game_id = 1 /\ market_name = "moneyline" THEN -160
    ELSE IF game_id = 1 /\ market_name = "spread" THEN -120
    ELSE None

\* get_pending_paper_bets: pending bets JOIN games JOIN signals, for games that
\* are completed with both scores
IsSettleable(gms, sigs, bet) ==
    /\ bet.status = "pending"
    /\ bet.game_id \in DOMAIN gms
    /\ bet.signal_id \in DOMAIN sigs
    /\ gms[bet.game_id].status = "completed"
    /\ gms[bet.game_id].home_score # None
    /\ gms[bet.game_id].away_score # None

get_pending_paper_bets(tbl, gms, sigs) ==
    LET rows == SelectSeq(tbl, LAMBDA bet : IsSettleable(gms, sigs, bet))
    IN  [i \in 1..Len(rows) |->
            rows[i] @@ [home_score |-> gms[rows[i].game_id].home_score,
                        away_score |-> gms[rows[i].game_id].away_score,
                        line_value |-> sigs[rows[i].signal_id].line_value]]

\* bet['home_team'] in selection
NamesHomeTeam(selection) == selection = "home"

line_value_or_zero_dropped(v) == 0

\* float(bet['line_value']) if bet['line_value'] else 0, in half points
line_value_or_zero(v) == IF v = None THEN 0 ELSE v

\* determine_bet_result: 'won', 'lost', 'push' or 'void'
determine_bet_result(bet) ==
    LET home_score == bet.home_score
        away_score == bet.away_score
        line_value == line_value_or_zero(bet.line_value)
    IN  IF IsMoneylineName(bet.market_name)
        THEN IF NamesHomeTeam(bet.selection)
             THEN IF home_score > away_score THEN "won" ELSE "lost"
             ELSE IF away_score > home_score THEN "won" ELSE "lost"
        ELSE IF IsSpreadName(bet.market_name)
        THEN IF NamesHomeTeam(bet.selection)
             THEN IF 2 * home_score + line_value > 2 * away_score THEN "won"
                  ELSE IF 2 * home_score + line_value = 2 * away_score THEN "push"
                  ELSE "lost"
             ELSE IF 2 * away_score + Abs(line_value) > 2 * home_score THEN "won"
                  ELSE IF 2 * away_score + Abs(line_value) = 2 * home_score THEN "push"
                  ELSE "lost"
        ELSE IF bet.market_name \in {"total", "over", "under"}
        THEN LET actual_total == 2 * (home_score + away_score)
             IN  IF bet.selection = "over"
                 THEN IF actual_total > line_value THEN "won"
                      ELSE IF actual_total = line_value THEN "push"
                      ELSE "lost"
                 ELSE IF actual_total < line_value THEN "won"
                      ELSE IF actual_total = line_value THEN "push"
                      ELSE "lost"
        ELSE "void"

calculate_profit_loss_payout(bet, result) ==
    IF result = "won"
    THEN IF bet.odds_american > 0
         THEN bet.stake + Round(<<bet.stake * bet.odds_american, 100>>)
         ELSE bet.stake + Round(<<bet.stake * 100, Abs(bet.odds_american)>>)
    ELSE IF result = "lost" THEN -bet.stake
    ELSE 0

\* calculate_profit_loss, in cents
calculate_profit_loss(bet, result) ==
    IF result = "won"
    THEN IF bet.odds_american > 0
         THEN Round(<<bet.stake * bet.odds_american, 100>>)
         ELSE Round(<<bet.stake * 100, Abs(bet.odds_american)>>)
    ELSE IF result = "lost" THEN -bet.stake
    ELSE 0

\* get_closing_odds: the statement text holds ClosingOddsPlaceholders
\* placeholders (%s) and the call binds ClosingOddsParams values; the driver
\* raises when the two differ
ClosingOddsPlaceholders == 6
ClosingOddsParams == 5

get_closing_odds_bound(bet) ==
    [raised |-> FALSE, value |-> odds_snapshots(bet.game_id, bet.market_name)]

get_closing_odds(bet) ==
    IF ClosingOddsPlaceholders # ClosingOddsParams
    THEN [raised |-> TRUE, value |-> None]
    ELSE [raised |-> FALSE, value |-> odds_snapshots(bet.game_id, bet.market_name)]

\* decimal odds of American odds, as a fraction
american_to_decimal(american) ==
    IF american > 0 THEN <<american + 100, 100>>
    ELSE <<Abs(american) + 100, Abs(american)>>

\* PaperBetSettlement.calculate_clv, in hundredths of a percent
paper_calculate_clv(bet_odds, closing_odds) ==
    LET b == american_to_decimal(bet_odds)
        c == american_to_decimal(closing_odds)
    IN  RoundS(10000 * (b[1] * c[2] - b[2] * c[1]), b[2] * c[1])

\* settle_bet: the new paper_bets, signals and counters.  An exception leaves
\* settle_bet before its UPDATE; run() catches it, logs it and goes on.
settle_bet(tbl, sigs, t, bet) ==
    LET result == determine_bet_result(bet)
        profit_loss == calculate_profit_loss(bet, result)
        closing == get_closing_odds(bet)
        clv == IF closing.value # None /\ closing.value # 0
               THEN paper_calculate_clv(bet.odds_american, closing.value)
               ELSE None
    IN  IF closing.raised
        THEN [paper_bets |-> tbl, signals |-> sigs, tally |-> t]
        ELSE [paper_bets |->
                 [tbl EXCEPT ![bet.id] = [@ EXCEPT !.status = result,
                                                   !.result = result,
                                                   !.profit_loss = profit_loss]],
              signals |->
                 IF clv # None
                 THEN [sigs EXCEPT ![bet.signal_id] = [@ EXCEPT !.clv_percent = clv]]
                 ELSE sigs,
              tally |-> [t EXCEPT !.settled_count = @ + 1,
                                  !.total_profit_loss = @ + profit_loss]]

update_bankroll_accumulating(row, tbl) ==
    LET done == SelectSeq(tbl, LAMBDA bet : bet.status # "pending")
        total_profit_loss == SumSeq([i \in 1..Len(done) |-> done[i].profit_loss])
    IN  [row EXCEPT
            !.balance = row.balance + total_profit_loss,
            !.total_bets = row.total_bets + Len(done),
            !.total_profit_loss = row.total_profit_loss + total_profit_loss,
            !.win_count = row.win_count
                          + Len(SelectSeq(done, LAMBDA bet : bet.result = "won")),
            !.loss_count = row.loss_count
                           + Len(SelectSeq(done, LAMBDA bet : bet.result = "lost")),
            !.push_count = row.push_count
                           + Len(SelectSeq(done, LAMBDA bet : bet.result = "push"))]

\* update_bankroll: the row recomputed from the bets that are not pending;
\* percentages in hundredths of a percent
update_bankroll(row, tbl) ==
    LET done == SelectSeq(tbl, LAMBDA bet : bet.status # "pending")
        total_bets == Len(done)
        total_staked == SumSeq([i \in 1..Len(done) |-> done[i].stake])
        total_profit_loss == SumSeq([i \in 1..Len(done) |-> done[i].profit_loss])
        win_count == Len(SelectSeq(done, LAMBDA bet : bet.result = "won"))
        loss_count == Len(SelectSeq(done, LAMBDA bet : bet.result = "lost"))
        push_count == Len(SelectSeq(done, LAMBDA bet : bet.result = "push"))
    IN  [row EXCEPT
            !.balance = row.starting_balance + total_profit_loss,
            !.total_bets = total_bets,
            !.total_staked = total_staked,
            !.total_profit_loss = total_profit_loss,
            !.roi_percent = IF total_staked > 0
                            THEN RoundS(total_profit_loss * 10000, total_staked)
                            ELSE 0,
            !.win_count = win_count,
            !.loss_count = loss_count,
            !.push_count = push_count,
            !.win_rate = IF win_count + loss_count > 0
                         THEN RoundS(win_count * 10000, win_count + loss_count)
                         ELSE 0]

NoTally == <<>>
PaperTally == [settled_count |-> 0, total_profit_loss |-> 0]

\* run(): pending_bets = self.get_pending_paper_bets(); if not pending_bets: return
PaperStartEmpty ==
    /\ spc = "idle"
    /\ settleNo < MaxSettleRuns
    /\ get_pending_paper_bets(paper_bets, games, signals) = <<>>
    /\ settleNo' = settleNo + 1
    /\ tally' = PaperTally
    /\ spc' = "paper_end"
    /\ UNCHANGED <<genVars, calcVars, agentVars, dbVars, settleDbVars, todo, sidx>>

PaperStart ==
    /\ spc = "idle"
    /\ settleNo < MaxSettleRuns
    /\ get_pending_paper_bets(paper_bets, games, signals) # <<>>
    /\ todo' = get_pending_paper_bets(paper_bets, games, signals)
    /\ sidx' = 1
    /\ settleNo' = settleNo + 1
    /\ tally' = PaperTally
    /\ spc' = "paper_loop"
    /\ UNCHANGED <<genVars, calcVars, agentVars, dbVars, settleDbVars>>

\* for bet in pending_bets: try: self.settle_bet(bet) except Exception: log
PaperSettleBet ==
    /\ spc = "paper_loop"
    /\ sidx <= Len(todo)
    /\ LET after == settle_bet(paper_bets, signals, tally, todo[sidx])
       IN  /\ paper_bets' = after.paper_bets
           /\ signals' = after.signals
           /\ tally' = after.tally
    /\ sidx' = sidx + 1
    /\ UNCHANGED <<genVars, calcVars, agentVars, paper_betting_strategies, paper_bankroll,
                   paper_bet_decisions, settleDbVars, spc, todo, settleNo>>

\* after the loop: update_bankroll(); generate_learning_signals() only reads
PaperFinish ==
    /\ spc = "paper_loop"
    /\ sidx > Len(todo)
    /\ paper_bankroll' = update_bankroll(paper_bankroll, paper_bets)
    /\ spc' = "paper_end"
    /\ UNCHANGED <<genVars, calcVars, agentVars, paper_betting_strategies, signals, paper_bets,
                   paper_bet_decisions, settleDbVars, todo, sidx, tally, settleNo>>


\* ======================================================================
\* SettlementProcessor (settle_results_v2.py)
\* ======================================================================

\* ELO constants; ratings are in hundredths of a point
K_FACTOR == 20
HOME_ADVANTAGE == 25
DefaultElo == 1500

\* 1 / (1 + 10 ** (-d / 400)) in units of 1e-5 at d = -200, -190, ..., 200
LogisticTable ==
    << 24025, 25092, 26189, 27317, 28475, 29661, 30876, 32118, 33386, 34678,
       35994, 37330, 38686, 40060, 41450, 42854, 44269, 45693, 47125, 48561,
       50000, 51439, 52875, 54307, 55731, 57146, 58550, 59940, 61314, 62670,
       64006, 65322, 66614, 67882, 69124, 70339, 71525, 72683, 73811, 74908,
       75975 >>

\* expected_win_probability(elo_a, elo_b) in units of 1e-5: the table value,
\* interpolated linearly between two grid points (the difference elo_a - elo_b
\* stays far inside the table for the ratings the bounded runs produce; outside
\* it the end value is taken)
expected_win_probability(elo_a, elo_b) ==
    LET d == elo_a - elo_b
        c == IF d < -20000 THEN -20000 ELSE IF d > 20000 THEN 20000 ELSE d
        k == (c + 20000) \div 1000
        r == (c + 20000) % 1000
        lo == LogisticTable[k + 1]
        hi == IF k + 2 <= Len(LogisticTable) THEN LogisticTable[k + 2] ELSE lo
    IN  lo + RoundS((hi - lo) * r, 1000)

update_elo_ratings_keeps_advantage(home_elo, away_elo, home_score, away_score) ==
    LET actual_home == IF home_score > away_score THEN 100000
                       ELSE IF home_score < away_score THEN 0 ELSE 50000
        home_elo_adjusted == home_elo + HOME_ADVANTAGE * 100
        expected_home == expected_win_probability(home_elo_adjusted, away_elo)
    IN  << home_elo_adjusted + RoundS(K_FACTOR * 100 * (actual_home - expected_home), 100000),
           away_elo + RoundS(K_FACTOR * 100 * (expected_home - actual_home), 100000) >>

\* update_elo_ratings: (new_home_elo, new_away_elo)
update_elo_ratings(home_elo, away_elo, home_score, away_score) ==
    LET actual_home == IF home_score > away_score THEN 100000
                       ELSE IF home_score < away_score THEN 0 ELSE 50000
        actual_away == 100000 - actual_home
        home_elo_adjusted == home_elo + HOME_ADVANTAGE * 100
        expected_home == expected_win_probability(home_elo_adjusted, away_elo)
        expected_away == 100000 - expected_home
    IN  << home_elo + RoundS(K_FACTOR * 100 * (actual_home - expected_home), 100000),
           away_elo + RoundS(K_FACTOR * 100 * (actual_away - expected_away), 100000) >>

\* db.get_team_elo: the stored rating, 1500.0 when the team has no row
get_team_elo(tbl, team_id) ==
    IF team_id \in DOMAIN tbl THEN tbl[team_id].elo_rating ELSE DefaultElo * 100

\* db.upsert_team_elo without games_played: insert with 1, or update and add 1
upsert_team_elo(tbl, team_id, elo_rating) ==
    IF team_id \in DOMAIN tbl
    THEN [tbl EXCEPT ![team_id] = [elo_rating |-> elo_rating,
                                   games_played |-> @.games_played + 1]]
    ELSE [t \in DOMAIN tbl \cup {team_id} |->
             IF t = team_id THEN [elo_rating |-> elo_rating, games_played |-> 1]
             ELSE tbl[t]]

\* update_team_elos: both ratings read, then both written
update_team_elos(tbl, home_team_id, away_team_id, home_score, away_score) ==
    LET home_elo == get_team_elo(tbl, home_team_id)
        away_elo == get_team_elo(tbl, away_team_id)
        new == update_elo_ratings(home_elo, away_elo, home_score, away_score)
    IN  upsert_team_elo(upsert_team_elo(tbl, home_team_id, new[1]),
                        away_team_id, new[2])

\* safe_float: None becomes 0.0
safe_float(value) == IF value = None THEN 0 ELSE value

\* determine_bet_outcome: 'win', 'loss', 'push' or 'void'; the test
\* "line_value is None" is on the value safe_float returned
determine_bet_outcome(bet, home_score, away_score) ==
    LET line_value == safe_float(bet.line_value)
    IN  IF bet.market_name = "spread"
        THEN IF line_value = None THEN "void"
             ELSE LET adjusted_margin == 2 * (home_score - away_score) + line_value
                  IN  IF adjusted_margin > 0 THEN "win"
                      ELSE IF adjusted_margin < 0 THEN "loss"
                      ELSE "push"
        ELSE IF bet.market_name = "total"
        THEN IF line_value = None THEN "void"
             ELSE LET total_points == 2 * (home_score + away_score)
                  IN  IF total_points > line_value THEN "win"
                      ELSE IF total_points < line_value THEN "loss"
                      ELSE "push"
        ELSE IF bet.market_name = "moneyline"
        THEN IF home_score > away_score THEN "win"
             ELSE IF home_score < away_score THEN "loss"
             ELSE "push"
        ELSE "void"

\* odds_math.profit_from_bet, in cents
profit_from_bet(stake, american_odds, won) ==
    IF won
    THEN LET decimal == american_to_decimal(american_odds)
         IN  Round(<<stake * (decimal[1] - decimal[2]), decimal[2]>>)
    ELSE -stake

\* odds_math.implied_probability: 1 / decimal, as a fraction
implied_probability(american_odds) ==
    LET decimal == american_to_decimal(american_odds)
    IN  <<decimal[2], decimal[1]>>

\* odds_math.calculate_clv: (close_prob - entry_prob) * 100, kept to
\* hundredths of a percent
calculate_clv(entry_odds_american, close_odds_american) ==
    LET e == implied_probability(entry_odds_american)
        c == implied_probability(close_odds_american)
    IN  RoundS(10000 * (c[1] * e[2] - e[1] * c[2]), c[2] * e[2])

\* the open bets of a game: WHERE b.game_id = %s AND b.settled_at IS NULL
\* (settled stands for settled_at IS NOT NULL)
open_bets_all(tbl, game_id) ==
    {i \in 1..Len(tbl) : tbl[i].game_id = game_id}

open_bets(tbl, game_id) ==
    {i \in 1..Len(tbl) : tbl[i].game_id = game_id /\ ~tbl[i].settled}

\* the loop body of settle_bets_for_game for one bet: the row after its UPDATE.
\* settles is not a column: it counts the UPDATEs that settled the row.
settled_row(bet, home_score, away_score) ==
    LET outcome == determine_bet_outcome(bet, home_score, away_score)
        pnl == IF outcome = "win"
               THEN profit_from_bet(safe_float(bet.stake_amount), bet.odds_american, TRUE)
               ELSE IF outcome = "loss"
               THEN profit_from_bet(safe_float(bet.stake_amount), bet.odds_american, FALSE)
               ELSE 0
        close_odds == odds_snapshots(bet.game_id, bet.market_name)
        clv_pct == IF close_odds # None /\ close_odds # 0
                   THEN calculate_clv(bet.odds_american, close_odds)
                   ELSE None
    IN  [bet EXCEPT !.result = outcome, !.profit_loss = pnl,
                    !.clv_percent = clv_pct, !.close_odds_american = close_odds,
                    !.settled = TRUE, !.settles = @ + 1]

\* the clv_history rows settle_bets_for_game inserts for the bets of todo_ids
\* (in id order; the order of the rows of a table carries no meaning)
RECURSIVE clv_rows(_, _, _)
clv_rows(tbl, after, i) ==
    IF i > Len(tbl) THEN <<>>
    ELSE (IF after[i] # tbl[i] /\ after[i].clv_percent # None
          THEN << [bet_id |-> after[i].bet_id,
                   entry_odds_american |-> after[i].odds_american,
                   close_odds_american |-> after[i].close_odds_american,
                   clv_percent |-> after[i].clv_percent] >>
          ELSE <<>>) \o clv_rows(tbl, after, i + 1)

\* settle_bets_for_game: the new bets and clv_history tables and the stats
settle_bets_for_game(tbl, clv_tbl, game_id, home_score, away_score) ==
    LET open == open_bets(tbl, game_id)
        after == [i \in 1..Len(tbl) |->
                     IF i \in open THEN settled_row(tbl[i], home_score, away_score)
                     ELSE tbl[i]]
    IN  [bets |-> after,
         clv_history |-> clv_tbl \o clv_rows(tbl, after, 1),
         stats |-> [settled |-> Cardinality(open),
                    wins |-> Cardinality({i \in open : after[i].result = "win"}),
                    losses |-> Cardinality({i \in open : after[i].result = "loss"}),
                    pushes |-> Cardinality({i \in open : after[i].result \in {"push", "void"}})]]

\* find_game_by_teams_and_date: a result names its teams and date; game = 0
\* stands for teams and a date that match no row of games
find_game_by_teams_and_date(gms, result) ==
    IF result.game \in DOMAIN gms THEN result.game ELSE None

\* db.update_game_result(game_id, home_score, away_score, status='final')
update_game_result(gms, game_id, home_score, away_score) ==
    [gms EXCEPT ![game_id] = [@ EXCEPT !.home_score = home_score,
                                       !.away_score = away_score,
                                       !.status = "final"]]

V2Tally == [games_updated |-> 0, bets_settled |-> 0, wins |-> 0, losses |-> 0, pushes |-> 0]

\* a result of the results feed for a game: the game's final score
ResultOf(gms, g) ==
    IF g \in DOMAIN gms
    THEN [game |-> g, final_home |-> gms[g].final[1], final_away |-> gms[g].final[2]]
    ELSE [game |-> g, final_home |-> 21, final_away |-> 14]

\* the lists fetch_results may return: completed games of the last days, a game
\* the database does not hold (0) among them
ResultLists(gms) ==
    {<<ResultOf(gms, 1)>>, <<ResultOf(gms, 2)>>, <<ResultOf(gms, 0), ResultOf(gms, 1)>>,
     <<ResultOf(gms, 2), ResultOf(gms, 1)>>}

\* what process_results_for_league returns where fetch_results raised or
\* returned nothing: a dict of three keys
no_results_return == [games_updated |-> 0, bets_settled |-> 0, avg_clv |-> 0]

\* process_results_for_league: fetch_results raised or returned nothing
V2NoResults ==
    /\ spc = "idle"
    /\ settleNo < MaxSettleRuns
    /\ settleNo' = settleNo + 1
    /\ tally' = no_results_return
    /\ spc' = "v2_end"
    /\ UNCHANGED <<genVars, calcVars, agentVars, dbVars, settleDbVars, todo, sidx>>

V2Start ==
    /\ spc = "idle"
    /\ settleNo < MaxSettleRuns
    /\ \E results \in ResultLists(games) : todo' = results
    /\ sidx' = 1
    /\ settleNo' = settleNo + 1
    /\ tally' = V2Tally
    /\ spc' = "v2_loop"
    /\ UNCHANGED <<genVars, calcVars, agentVars, dbVars, settleDbVars>>

\* for result in results: game not found: continue
V2GameNotFound ==
    /\ spc = "v2_loop"
    /\ sidx <= Len(todo)
    /\ find_game_by_teams_and_date(games, todo[sidx]) = None
    /\ sidx' = sidx + 1
    /\ UNCHANGED <<genVars, calcVars, agentVars, dbVars, settleDbVars, spc, todo, tally, settleNo>>

\* for result in results: update_game_with_results, update_team_elos,
\* settle_bets_for_game
V2ProcessResult ==
    /\ spc = "v2_loop"
    /\ sidx <= Len(todo)
    /\ find_game_by_teams_and_date(games, todo[sidx]) # None
    /\ LET result == todo[sidx]
           game_id == find_game_by_teams_and_date(games, result)
           after == settle_bets_for_game(bets, clv_history, game_id,
                                         result.final_home, result.final_away)
       IN  /\ games' = update_game_result(games, game_id,
                                          result.final_home, result.final_away)
           /\ team_elos' = update_team_elos(team_elos, games[game_id].home_team_id,
                                            games[game_id].away_team_id,
                                            result.final_home, result.final_away)
           /\ bets' = after.bets
           /\ clv_history' = after.clv_history
           /\ tally' = [games_updated |-> tally.games_updated + 1,
                        bets_settled |-> tally.bets_settled + after.stats.settled,
                        wins |-> tally.wins + after.stats.wins,
                        losses |-> tally.losses + after.stats.losses,
                        pushes |-> tally.pushes + after.stats.pushes]
    /\ sidx' = sidx + 1
    /\ UNCHANGED <<genVars, calcVars, agentVars, dbVars, spc, todo, settleNo>>

V2Finish ==
    /\ spc = "v2_loop"
    /\ sidx > Len(todo)
    /\ spc' = "v2_end"
    /\ UNCHANGED <<genVars, calcVars, agentVars, dbVars, settleDbVars, todo, sidx, tally, settleNo>>

\* the settlement process ends
SettleExit ==
    /\ spc \in {"paper_end", "v2_end"}
    /\ spc' = "idle"
    /\ todo' = <<>>
    /\ sidx' = 0
    /\ tally' = NoTally
    /\ UNCHANGED <<genVars, calcVars, agentVars, dbVars, settleDbVars, settleNo>>

\* -------------------------------------------------------- settlement inputs

Scores == {<<24, 17>>, <<17, 24>>, <<20, 20>>}

\* a games row; final is not a column: it is the score the results feed reports
GameRow(g, status, final) ==
    [status |-> status,
     home_score |-> IF status = "completed" THEN final[1] ELSE None,
     away_score |-> IF status = "completed" THEN final[2] ELSE None,
     home_team_id |-> GameTeams(g)[1], away_team_id |-> GameTeams(g)[2],
     final |-> final]

GameTables ==
    {[g \in 1..2 |-> GameRow(g, st[g], fs[g])] :
        st \in [1..2 -> {"scheduled", "completed"}], fs \in [1..2 -> Scores]}

\* signals whose bets are waiting: a home moneyline and a home spread on game
\* 1, an over on game 2
SettleSignals ==
    [i \in 1..3 |-> IF i = 1 THEN SignalRow(1, 1, Profiles[1])
                    ELSE IF i = 2 THEN SignalRow(2, 1, Profiles[3])
                    ELSE SignalRow(3, 2, Profiles[2])]

BetRow(i, g, market, odds, stake, line) ==
    [bet_id |-> i, game_id |-> g, market_name |-> market, odds_american |-> odds,
     stake_amount |-> stake, line_value |-> line, result |-> "null",
     profit_loss |-> None, clv_percent |-> None, close_odds_american |-> None,
     settled |-> FALSE, settles |-> 0]

InitSettle ==
    LET \* the paper bets an earlier agent run placed on them
        SettlePaperBets ==
            place_paper_bet(
                place_paper_bet(
                    place_paper_bet(<<>>, SettleSignals[1], 1001, 1),
                    SettleSignals[2], 225, 1),
                SettleSignals[3], 500, 1)
        SettleBets ==
            << BetRow(1, 1, "spread", -110, 1100, -14),
               BetRow(2, 1, "moneyline", 150, 1000, None),
               BetRow(3, 2, "total", -105, 2000, 82) >>
    IN  /\ paper_betting_strategies \in Strategies
        /\ paper_bankroll = BankrollRow(100060)
        /\ signals = SettleSignals
        /\ paper_bets = SettlePaperBets
        /\ paper_bet_decisions = <<>>
        /\ agent = NoAgent
        /\ pc = "idle"
        /\ candidates = <<>>
        /\ idx = 0
        /\ bets_placed = 0
        /\ max_bets = 0
        /\ cur = NoDecision
        /\ runNo = 1
        /\ games \in GameTables
        /\ bets = SettleBets
        /\ clv_history = <<>>
        /\ team_elos = <<>>
        /\ spc = "idle"
        /\ todo = <<>>
        /\ sidx = 0
        /\ tally = NoTally
        /\ settleNo = 0
        /\ now = 0
        /\ gpc = "idle"
        /\ league = 0
        /\ loaded = <<>>
        /\ gidx = 0
        /\ genNo = 0
        /\ all_signals = <<>>
        /\ arg = <<>>
        /\ out = <<>>
        /\ applied = 0

NextSettle ==
    \/ PaperStartEmpty
    \/ PaperStart
    \/ PaperSettleBet
    \/ PaperFinish
    \/ V2NoResults
    \/ V2Start
    \/ V2GameNotFound
    \/ V2ProcessResult
    \/ V2Finish
    \/ SettleExit

SpecSettle == InitSettle /\ [][NextSettle]_vars

\* ======================================================================
\* SignalGeneratorV2 (generate_signals_v2.py) and Database.insert_signal
\* ======================================================================

MaxGenRuns == 2
MaxClock == 2

\* main(): the leagues of --leagues / LEAGUES, the window of --hours-ahead
Leagues == <<"nfl", "nba", "nhl">>
hours_ahead == 48

\* indices of tbl in ascending scheduled_at (ORDER BY g.scheduled_at ASC; rows
\* with equal times in id order)
RECURSIVE BySchedule(_, _)
BySchedule(tbl, ids) ==
    IF ids = {} THEN <<>>
    ELSE LET first == CHOOSE i \in ids :
                 \A j \in ids : \/ tbl[i].scheduled_at < tbl[j].scheduled_at
                                \/ /\ tbl[i].scheduled_at = tbl[j].scheduled_at
                                   /\ i <= j
         IN  <<tbl[first]>> \o BySchedule(tbl, ids \ {first})

\* load_upcoming_games: the scheduled games of the league that start after
\* NOW() and within the window, earliest first; t is NOW() of the query
load_upcoming_games(gms, sport, t) ==
    BySchedule(gms, {i \in 1..Len(gms) :
                        /\ gms[i].sport = sport
                        /\ gms[i].status = "scheduled"
                        /\ gms[i].scheduled_at > t
                        /\ gms[i].scheduled_at <= t + 60 * hours_ahead})

\* calculate_expiry_time; t is datetime.now(timezone.utc) of the call
calculate_expiry_time(game_scheduled_at, sport, t) ==
    LET hours_before == IF sport = "nfl" THEN 48
                        ELSE IF sport = "nba" THEN 24
                        ELSE 36
        first_candidate == game_scheduled_at - 60 * hours_before
        minimum_expiry == t + 5
        candidate == IF first_candidate < minimum_expiry THEN minimum_expiry
                     ELSE first_candidate
    IN  Min(candidate, game_scheduled_at)

\* what the odds and the model of a game can make of one selection: market,
\* sportsbook, price and edge (tenths of a percent).  The first two are the
\* two sides of one spread, offered at the same price by the same book.
SignalDrafts ==
    << [market_id |-> 1, sportsbook |-> "dk", odds_american |-> -110,
        edge_percent |-> 40, confidence_level |-> "medium"],
       [market_id |-> 1, sportsbook |-> "dk", odds_american |-> -110,
        edge_percent |-> 62, confidence_level |-> "high"],
       [market_id |-> 2, sportsbook |-> "fd", odds_american |-> 120,
        edge_percent |-> 35, confidence_level |-> "medium"] >>

\* generate_signals_for_game: the signal dicts of one game, each with the
\* expiry calculate_expiry_time gives at the time of the call
generate_signals_for_game(game, drafts, t) ==
    [k \in 1..Len(drafts) |->
        [game_id |-> game.game_id,
         market_id |-> SignalDrafts[drafts[k]].market_id,
         sportsbook |-> SignalDrafts[drafts[k]].sportsbook,
         odds_american |-> SignalDrafts[drafts[k]].odds_american,
         edge_percent |-> SignalDrafts[drafts[k]].edge_percent,
         confidence_level |-> SignalDrafts[drafts[k]].confidence_level,
         expires_at |-> calculate_expiry_time(game.scheduled_at, game.sport, t)]]

\* the status column of a new signals row: the INSERT does not set it, the
\* table's default does
DefaultSignalStatus == "active"

\* ON CONFLICT (game_id, market_id, odds_american, sportsbook)
SameSignalKey(row, signal) ==
    /\ row.game_id = signal.game_id
    /\ row.market_id = signal.market_id
    /\ row.odds_american = signal.odds_american
    /\ row.sportsbook = signal.sportsbook

\* the row a plain INSERT adds
new_signal_row(tbl, signal, t) ==
    [id |-> Len(tbl) + 1, game_id |-> signal.game_id,
     market_id |-> signal.market_id, sportsbook |-> signal.sportsbook,
     odds_american |-> signal.odds_american,
     edge_percent |-> signal.edge_percent,
     confidence_level |-> signal.confidence_level,
     expires_at |-> signal.expires_at, generated_at |-> t,
     status |-> DefaultSignalStatus]

insert_signal_always_insert(tbl, signal, t) ==
    [signals |-> Append(tbl, new_signal_row(tbl, signal, t)), id |-> Len(tbl) + 1]

\* insert_signal: INSERT ... ON CONFLICT (key) WHERE status = 'active'
\* DO UPDATE SET ... RETURNING id: the new table and the returned id
insert_signal(tbl, signal, t) ==
    LET conflict == {i \in 1..Len(tbl) :
                        tbl[i].status = "active" /\ SameSignalKey(tbl[i], signal)}
    IN  IF conflict # {}
        THEN LET i == CHOOSE c \in conflict : TRUE
             IN  [signals |->
                     [tbl EXCEPT ![i] =
                         [@ EXCEPT !.edge_percent = signal.edge_percent,
                                   !.confidence_level = signal.confidence_level,
                                   !.expires_at = signal.expires_at,
                                   !.generated_at = t]],
                  id |-> tbl[i].id]
        ELSE [signals |-> Append(tbl, new_signal_row(tbl, signal, t)),
              id |-> Len(tbl) + 1]

\* save_signal_to_db
save_signal_to_db(tbl, signal, t) == insert_signal(tbl, signal, t)

\* main(): for signal in signals: signal['id'] = save_signal_to_db(signal);
\* all_signals.append(signal) -- the table and all_signals after the loop
RECURSIVE save_signals(_, _, _, _)
save_signals(tbl, saved, todo_signals, t) ==
    IF todo_signals = <<>> THEN [signals |-> tbl, all_signals |-> saved]
    ELSE LET r == save_signal_to_db(tbl, Head(todo_signals), t)
         IN  save_signals(r.signals,
                          Append(saved, Head(todo_signals) @@ [id |-> r.id]),
                          Tail(todo_signals), t)

\* time passes
Tick ==
    /\ now < MaxClock
    /\ now' = now + 1
    /\ UNCHANGED <<dbVars, agentVars, settleDbVars, settleVars, calcVars,
                   gpc, league, loaded, gidx, genNo, all_signals>>

\* main() up to the loop over the leagues
GenStart ==
    /\ gpc = "idle"
    /\ genNo < MaxGenRuns
    /\ genNo' = genNo + 1
    /\ league' = 1
    /\ all_signals' = <<>>
    /\ gpc' = "league"
    /\ UNCHANGED <<dbVars, agentVars, settleDbVars, settleVars, calcVars,
                   now, loaded, gidx>>

\* for league in leagues: games = generator.load_upcoming_games(league, hours_ahead)
GenLoad ==
    /\ gpc = "league"
    /\ league <= Len(Leagues)
    /\ loaded' = load_upcoming_games(games, Leagues[league], now)
    /\ gidx' = 1
    /\ gpc' = "games"
    /\ UNCHANGED <<dbVars, agentVars, settleDbVars, settleVars, calcVars,
                   now, league, genNo, all_signals>>

\* for game in games: generate_signals_for_game(game), then save each signal
GenGame ==
    LET DraftLists == { <<>>, <<1, 2>>, <<2, 3>> }
    IN  /\ gpc = "games"
        /\ gidx <= Len(loaded)
        /\ \E drafts \in DraftLists :
              LET r == save_signals(signals, all_signals,
                                    generate_signals_for_game(loaded[gidx], drafts, now),
                                    now)
              IN  /\ signals' = r.signals
                  /\ all_signals' = r.all_signals
        /\ gidx' = gidx + 1
        /\ UNCHANGED <<paper_betting_strategies, paper_bankroll, paper_bets,
                       paper_bet_decisions, agentVars, settleDbVars, settleVars,
                       calcVars, now, gpc, league, loaded, genNo>>

\* the games of the league are done: the next league
GenNextLeague ==
    /\ gpc = "games"
    /\ gidx > Len(loaded)
    /\ league' = league + 1
    /\ gpc' = "league"
    /\ UNCHANGED <<dbVars, agentVars, settleDbVars, settleVars, calcVars,
                   now, loaded, gidx, genNo, all_signals>>

\* after the last league: the summary, and the process ends
GenFinish ==
    /\ gpc = "league"
    /\ league > Len(Leagues)
    /\ gpc' = "idle"
    /\ UNCHANGED <<dbVars, agentVars, settleDbVars, settleVars, calcVars,
                   now, league, loaded, gidx, genNo, all_signals>>

\* ---------------------------------------------------------------- inputs

GenGameRow(g, sport, status, scheduled_at) ==
    [game_id |-> g, sport |-> sport, status |-> status,
     scheduled_at |-> scheduled_at]

\* an NFL game about to start, an NBA and an NHL game days ahead, a game
\* that is over and a game beyond the window
GenGames ==
    << GenGameRow(1, "nfl", "scheduled", 1),
       GenGameRow(2, "nba", "scheduled", 2000),
       GenGameRow(3, "nhl", "scheduled", 2500),
       GenGameRow(4, "nfl", "final", -200),
       GenGameRow(5, "nba", "scheduled", 3000) >>

InitGen ==
    LET \* the signals table before the first run: empty, or holding a signal of
        \* game 2 that is no longer active
        GenSignalTables ==
            { <<>>,
              << [new_signal_row(<<>>, generate_signals_for_game(GenGames[2], <<1>>, -10)[1], -10)
                     EXCEPT !.status = "expired"] >> }
    IN  /\ paper_betting_strategies = CHOOSE s \in Strategies : TRUE
        /\ paper_bankroll = BankrollRow(100060)
        /\ signals \in GenSignalTables
        /\ paper_bets = <<>>
        /\ paper_bet_decisions = <<>>
        /\ agent = NoAgent
        /\ pc = "idle"
        /\ candidates = <<>>
        /\ idx = 0
        /\ bets_placed = 0
        /\ max_bets = 0
        /\ cur = NoDecision
        /\ runNo = 0
        /\ games = GenGames
        /\ bets = <<>>
        /\ clv_history = <<>>
        /\ team_elos = <<>>
        /\ spc = "idle"
        /\ todo = <<>>
        /\ sidx = 0
        /\ tally = <<>>
        /\ settleNo = 0
        /\ now = 0
        /\ gpc = "idle"
        /\ league = 0
        /\ loaded = <<>>
        /\ gidx = 0
        /\ genNo = 0
        /\ all_signals = <<>>
        /\ arg = <<>>
        /\ out = <<>>
        /\ applied = 0

NextGen ==
    \/ Tick
    \/ GenStart
    \/ GenLoad
    \/ GenGame
    \/ GenNextLeague
    \/ GenFinish

SpecGen == InitGen /\ [][NextGen]_vars

\* ======================================================================
\* Library functions (shared/odds_math.py, models/features.py), called one
\* at a time on arguments drawn from bounded sets
\* ======================================================================

MaxOdds == 130
ProbSteps == 12

RECURSIVE IsPowerOfTwo(_)
IsPowerOfTwo(d) == d = 1 \/ (d > 1 /\ d % 2 = 0 /\ IsPowerOfTwo(d \div 2))

\* a fraction that a binary float holds exactly (the values here are small):
\* its denominator in lowest terms is a power of two
IsBinaryExact(f) == IsPowerOfTwo(Norm(f)[2])

\* int(x) of a float x computed for the exact value n / d (d > 0): truncation
\* toward zero.  When the operands were exact so is x.  Otherwise x carries a
\* rounding error, and where n / d is a whole number other than 0 x may lie
\* just short of it, so that int() gives the whole number before it.
int_of_float(n, d, exact) ==
    LET q == Abs(n) \div d
        r == Abs(n) % d
        sgn == IF n < 0 THEN -1 ELSE 1
    IN  IF ~exact /\ r = 0 /\ q > 0 THEN {sgn * q, sgn * (q - 1)} ELSE {sgn * q}

decimal_to_american_above_two(decimal_odds) ==
    IF decimal_odds[1] > 2 * decimal_odds[2]
    THEN int_of_float((decimal_odds[1] - decimal_odds[2]) * 100, decimal_odds[2],
                      IsBinaryExact(decimal_odds))
    ELSE int_of_float(-100 * decimal_odds[2], decimal_odds[1] - decimal_odds[2],
                      IsBinaryExact(decimal_odds))

\* odds_math.decimal_to_american on the float computed for decimal odds
\* n / d > 1: the values int() can return
decimal_to_american(decimal_odds) ==
    IF decimal_odds[1] >= 2 * decimal_odds[2]
    THEN int_of_float((decimal_odds[1] - decimal_odds[2]) * 100, decimal_odds[2],
                      IsBinaryExact(decimal_odds))
    ELSE int_of_float(-100 * decimal_odds[2], decimal_odds[1] - decimal_odds[2],
                      IsBinaryExact(decimal_odds))

kelly_fraction_unclamped(fair_prob, decimal_odds, fraction) ==
    LET b == <<decimal_odds[1] - decimal_odds[2], decimal_odds[2]>>
        p == fair_prob
        q == <<fair_prob[2] - fair_prob[1], fair_prob[2]>>
        bp_minus_q == <<b[1] * p[1] * q[2] - q[1] * b[2] * p[2], b[2] * p[2] * q[2]>>
        kelly_full == <<bp_minus_q[1] * b[2], bp_minus_q[2] * b[1]>>
    IN  <<kelly_full[1] * fraction[1], kelly_full[2] * fraction[2]>>

\* odds_math.kelly_fraction on fractions <<n, d>> (d > 0, decimal odds > 1):
\* max(0, (b * p - q) / b * fraction), in lowest terms
kelly_fraction(fair_prob, decimal_odds, fraction) ==
    LET b == <<decimal_odds[1] - decimal_odds[2], decimal_odds[2]>>
        p == fair_prob
        q == <<fair_prob[2] - fair_prob[1], fair_prob[2]>>
        bp_minus_q == <<b[1] * p[1] * q[2] - q[1] * b[2] * p[2], b[2] * p[2] * q[2]>>
        kelly_full == <<bp_minus_q[1] * b[2], bp_minus_q[2] * b[1]>>
        kelly_fractional == <<kelly_full[1] * fraction[1], kelly_full[2] * fraction[2]>>
    IN  IF kelly_fractional[1] <= 0 THEN <<0, 1>> ELSE Norm(kelly_fractional)

\* NFLFeatureGenerator.__init__ defaults and the default rating of update_elo;
\* ratings are in hundredths of a point
k_factor == 20
home_advantage == 25
default_elo == 1500

\* NFLFeatureGenerator.expected_score, in units of 1e-5: the same formula as
\* expected_win_probability
expected_score(elo_a, elo_b) == expected_win_probability(elo_a, elo_b)

\* self.team_elos.get(team_id, 1500.0)
elo_of(elos, team_id) ==
    IF team_id \in DOMAIN elos THEN elos[team_id] ELSE default_elo * 100

\* NFLFeatureGenerator.update_elo: self.team_elos after the call;
\* actual_score is in units of 1e-5
update_elo(elos, team_id, opponent_id, actual_score, is_home) ==
    LET team_elo == elo_of(elos, team_id) + (IF is_home THEN home_advantage * 100 ELSE 0)
        opponent_elo == elo_of(elos, opponent_id)
        expected == expected_score(team_elo, opponent_elo)
        raised == team_elo + RoundS(k_factor * 100 * (actual_score - expected), 100000)
        new_elo == IF is_home THEN raised - home_advantage * 100 ELSE raised
    IN  [t \in DOMAIN elos \cup {team_id} |-> IF t = team_id THEN new_elo ELSE elos[t]]

\* the loop body of update_ratings_from_results for one row
update_ratings_from_row(elos, row) ==
    LET home_result == IF row.home_score > row.away_score THEN 100000
                       ELSE IF row.home_score < row.away_score THEN 0
                       ELSE 50000
        away_result == 100000 - home_result
        after_home == update_elo(elos, row.home_team_id, row.away_team_id,
                                 home_result, TRUE)
    IN  update_elo(after_home, row.away_team_id, row.home_team_id, away_result, FALSE)

\* results_df.sort_values('game_date'): the rows, earliest first (rows of one
\* date in their order in the frame)
RECURSIVE ByGameDate(_, _)
ByGameDate(df, ids) ==
    IF ids = {} THEN <<>>
    ELSE LET first == CHOOSE i \in ids :
                 \A j \in ids : \/ df[i].game_date < df[j].game_date
                                \/ /\ df[i].game_date = df[j].game_date
                                   /\ i <= j
         IN  <<df[first]>> \o ByGameDate(df, ids \ {first})

sort_values(df) == ByGameDate(df, 1..Len(df))

\* ------------------------------------------------- odds_math on any integer

american_to_decimal_zero_as_positive(american_odds) ==
    IF american_odds >= 0
    THEN [raised |-> "none", value |-> <<american_odds + 100, 100>>]
    ELSE [raised |-> "none", value |-> <<Abs(american_odds) + 100, Abs(american_odds)>>]

\* odds_math.american_to_decimal on any integer: what it returns, or the
\* exception the division 100 / abs(american_odds) raises
american_to_decimal_outcome(american_odds) ==
    IF american_odds > 0
    THEN [raised |-> "none", value |-> <<american_odds + 100, 100>>]
    ELSE IF Abs(american_odds) = 0
    THEN [raised |-> "ZeroDivisionError", value |-> <<>>]
    ELSE [raised |-> "none", value |-> <<Abs(american_odds) + 100, Abs(american_odds)>>]

\* odds_math.implied_probability on any integer: the exception of
\* american_to_decimal passes through, 1 / decimal raises on decimal 0
implied_probability_outcome(american_odds) ==
    LET decimal == american_to_decimal_outcome(american_odds)
    IN  IF decimal.raised # "none" THEN decimal
        ELSE IF decimal.value[1] = 0
        THEN [raised |-> "ZeroDivisionError", value |-> <<>>]
        ELSE [raised |-> "none", value |-> <<decimal.value[2], decimal.value[1]>>]

\* ------------------------------------- generate_signals_v2: the odds loop
\* Probabilities of this part are in 1e-4 where they are stored values and
\* exact fractions <<n, d>> where they are computed; edges are exact
\* fractions <<n, d>> in hundredths of a percent.

\* config['edge_sides'] * 100 and config['edge_props'] * 100 of the defaults
\* 0.02 and 0.03, in hundredths of a percent
edge_sides == 200
edge_props == 300

\* odds_math.remove_vig_multiplicative
remove_vig_multiplicative(prob_a, prob_b) ==
    << <<prob_a, prob_a + prob_b>>, <<prob_b, prob_a + prob_b>> >>

\* odds_math.calculate_edge: (fair_prob - implied_prob) * 100
calculate_edge(fair_prob, implied_prob) ==
    <<fair_prob * implied_prob[2] - 10000 * implied_prob[1], implied_prob[2]>>

\* key = (market_id, sportsbook, line_key, market_name)
group_key(market_id, sportsbook, line_value, market_name) ==
    <<market_id, sportsbook, line_value, market_name>>

\* _group_odds_for_vig_removal: for every key the selections stored under it,
\* in the order they were first stored (the loader returns one row for a
\* market, sportsbook and selection)
group_odds_for_vig_removal(snapshots) ==
    LET kept == SelectSeq(snapshots, LAMBDA odds : odds.selection # "")
        key_of(odds) == group_key(odds.market_id, odds.sportsbook,
                                  odds.line_value, odds.market_name)
    IN  [key \in {key_of(kept[i]) : i \in 1..Len(kept)} |->
            SelectSeq(kept, LAMBDA odds : key_of(odds) = key)]

\* _get_devigged_probability: the vig-removed probability of the selection,
\* or the raw one
get_devigged_probability(odds_by_market, market_id, sportsbook, line_value, market_name, selection, raw_implied_prob) ==
    LET key == group_key(market_id, sportsbook, line_value, market_name)
    IN  IF key \notin DOMAIN odds_by_market THEN <<raw_implied_prob, 10000>>
        ELSE LET market_selections == odds_by_market[key]
             IN  IF Len(market_selections) # 2 THEN <<raw_implied_prob, 10000>>
                 ELSE LET fair == remove_vig_multiplicative(
                                      market_selections[1].implied_probability,
                                      market_selections[2].implied_probability)
                      IN  IF market_selections[1].selection = selection THEN fair[1]
                          ELSE IF market_selections[2].selection = selection THEN fair[2]
                          ELSE <<raw_implied_prob, 10000>>

\* calculate_fair_probability: game.model_prob stands for what the rating
\* model computes for the home side of the game (and for Over); the other
\* side gets the complement.  None where the code returns None.
calculate_fair_probability(game, market_name, selection, line_value) ==
    IF market_name = "moneyline"
    THEN IF NamesHomeTeam(selection) THEN game.model_prob
         ELSE IF selection = "away" THEN 10000 - game.model_prob
         ELSE None
    ELSE IF market_name = "spread"
    THEN IF line_value = None THEN None
         ELSE IF ~(NamesHomeTeam(selection) \/ selection = "away") THEN None
         ELSE IF NamesHomeTeam(selection) THEN game.model_prob
         ELSE 10000 - game.model_prob
    ELSE IF market_name = "total"
    THEN IF line_value = None THEN None
         ELSE IF selection = "Over" THEN game.model_prob
         ELSE IF selection = "Under" THEN 10000 - game.model_prob
         ELSE None
    ELSE None

\* the implied probability the loop uses for one odds row
implied_prob_used(odds_by_market, odds) ==
    get_devigged_probability(odds_by_market, odds.market_id, odds.sportsbook,
                             odds.line_value, odds.market_name, odds.selection,
                             odds.implied_probability)

\* confidence by edge, one step down on a small sample
confidence_of_edge(edge_pct, insufficient_sample) ==
    LET confidence == IF ~FLess(edge_pct, <<500, 1>>) THEN "high"
                      ELSE IF ~FLess(edge_pct, <<350, 1>>) THEN "medium"
                      ELSE "low"
    IN  IF insufficient_sample
        THEN IF confidence = "high" THEN "medium" ELSE "low"
        ELSE confidence

signals_of_one_odds_uncapped(game, odds_by_market, odds) ==
    IF odds.selection = "" THEN <<>>
    ELSE LET fair_prob == calculate_fair_probability(game, odds.market_name,
                                                     odds.selection, odds.line_value)
             min_edge == IF odds.market_name \in {"spread", "total", "moneyline"}
                         THEN <<edge_sides, 1>> ELSE <<edge_props, 1>>
             implied_prob == implied_prob_used(odds_by_market, odds)
             edge_pct == calculate_edge(fair_prob, implied_prob)
         IN  IF fair_prob = None THEN <<>>
             ELSE IF FLess(edge_pct, min_edge) THEN <<>>
             ELSE << [game_id |-> game.game_id, market_id |-> odds.market_id,
                      sportsbook |-> odds.sportsbook,
                      odds_american |-> odds.odds_american,
                      line_value |-> odds.line_value,
                      fair_probability |-> fair_prob,
                      implied_probability |->
                          Round(<<10000 * implied_prob[1], implied_prob[2]>>),
                      raw_implied_probability |-> odds.implied_probability,
                      edge_percent |-> Round(edge_pct),
                      confidence_level |->
                          confidence_of_edge(edge_pct, game.insufficient_sample)] >>

\* one turn of the loop over odds_snapshots: the signal appended for this
\* odds row, or none where the turn ends in continue.  edge_percent is
\* round(edge_pct, 2), in hundredths of a percent.
signals_of_one_odds(game, odds_by_market, odds) ==
    IF odds.selection = "" THEN <<>>
    ELSE LET fair_prob == calculate_fair_probability(game, odds.market_name,
                                                     odds.selection, odds.line_value)
             min_edge == IF odds.market_name \in {"spread", "total", "moneyline"}
                         THEN <<edge_sides, 1>> ELSE <<edge_props, 1>>
             implied_prob == implied_prob_used(odds_by_market, odds)
             edge_pct == calculate_edge(fair_prob, implied_prob)
         IN  IF fair_prob = None THEN <<>>
             ELSE IF FLess(edge_pct, min_edge) THEN <<>>
             ELSE IF FLess(<<2000, 1>>, edge_pct) THEN <<>>
             ELSE << [game_id |-> game.game_id, market_id |-> odds.market_id,
                      sportsbook |-> odds.sportsbook,
                      odds_american |-> odds.odds_american,
                      line_value |-> odds.line_value,
                      fair_probability |-> fair_prob,
                      implied_probability |->
                          Round(<<10000 * implied_prob[1], implied_prob[2]>>),
                      raw_implied_probability |-> odds.implied_probability,
                      edge_percent |-> Round(edge_pct),
                      confidence_level |->
                          confidence_of_edge(edge_pct, game.insufficient_sample)] >>

\* for odds in odds_snapshots: ... signals.append(signal)
RECURSIVE odds_loop(_, _, _, _)
odds_loop(game, odds_by_market, snapshots, emitted) ==
    IF snapshots = <<>> THEN emitted
    ELSE odds_loop(game, odds_by_market, Tail(snapshots),
                   emitted \o signals_of_one_odds(game, odds_by_market,
                                                  Head(snapshots)))

\* generate_signals_for_game from the odds rows load_latest_odds_for_game
\* returned, without the stake and the expiry of the signals
signals_from_odds(game, snapshots) ==
    IF snapshots = <<>> THEN <<>>
    ELSE odds_loop(game, group_odds_for_vig_removal(snapshots),
                   snapshots, <<>>)

\* the implied probability the loop uses for each odds row with a selection
\* (None for a row it skips before)
implied_probs_from_odds(snapshots) ==
    LET odds_by_market == group_odds_for_vig_removal(snapshots)
    IN  [k \in 1..Len(snapshots) |->
            IF snapshots[k].selection = "" THEN <<None, 1>>
            ELSE implied_prob_used(odds_by_market, snapshots[k])]

\* --------------------------------------------------- the retry helpers
\* A call in progress is a record: state is "running", "returned" or
\* "raised", attempt the loop variable, outcomes what the invocations of the
\* wrapped operation did so far ("ok", "retryable", "other"), result what the
\* helper returned or raised ("none" while running).

MaxRetries == 3

\* fetch_with_backoff: one turn of for attempt in range(max_retries), the
\* wrapped request_fn ending as outcome
fetch_attempt(call, max_retries, outcome) ==
    LET seen == Append(call.outcomes, outcome)
    IN  IF outcome = "ok"
        THEN [call EXCEPT !.state = "returned", !.outcomes = seen, !.result = "value"]
        ELSE IF outcome = "retryable"
        THEN IF call.attempt = max_retries - 1
             THEN [call EXCEPT !.state = "raised", !.outcomes = seen,
                               !.result = "retryable"]
             ELSE [call EXCEPT !.attempt = call.attempt + 1, !.outcomes = seen]
        ELSE [call EXCEPT !.state = "raised", !.outcomes = seen, !.result = "other"]

\* fetch_with_backoff after the loop: raise last_exception if there is one,
\* else fall off the end of the function, which returns None
fetch_loop_end(call) ==
    IF call.outcomes # <<>>
    THEN [call EXCEPT !.state = "raised", !.result = "retryable"]
    ELSE [call EXCEPT !.state = "returned", !.result = "None"]

\* execute_with_retry: one turn of for attempt in range(self.max_retries)
execute_attempt(call, max_retries, outcome) ==
    LET seen == Append(call.outcomes, outcome)
    IN  IF outcome = "ok"
        THEN [call EXCEPT !.state = "returned", !.outcomes = seen, !.result = "value"]
        ELSE IF outcome = "retryable"
        THEN IF call.attempt < max_retries - 1
             THEN [call EXCEPT !.attempt = call.attempt + 1, !.outcomes = seen]
             ELSE [call EXCEPT !.state = "raised", !.outcomes = seen,
                               !.result = "DatabaseError"]
        ELSE [call EXCEPT !.state = "raised", !.outcomes = seen,
                          !.result = "DatabaseError"]

\* execute_with_retry after the loop: the function ends, returning None
execute_loop_end(call) == [call EXCEPT !.state = "returned", !.result = "None"]

\* ------------------------------------------------ settle_results_v2.main
\* A run of main is a record: state is "running", "summary" (the summary is
\* printed) or "raised", the totals are main's counters.

\* the dict process_results_for_league returns; a league with results is one
\* game updated and two bets settled, one won and one lost
process_results_for_league_return(kind) ==
    IF kind \in {"fetch_failed", "no_results"} THEN no_results_return
    ELSE [games_updated |-> 1, bets_settled |-> 2, wins |-> 1, losses |-> 1,
          pushes |-> 0, avg_clv |-> 150]

\* main: one turn of for league in leagues on the dict the league returned;
\* result['wins'] raises KeyError on a dict without that key
main_league(run, result) ==
    IF "wins" \notin DOMAIN result
    THEN [run EXCEPT !.state = "raised", !.result = "KeyError",
                     !.total_games = @ + result.games_updated,
                     !.total_bets = @ + result.bets_settled]
    ELSE [run EXCEPT !.total_games = @ + result.games_updated,
                     !.total_bets = @ + result.bets_settled,
                     !.total_wins = @ + result.wins,
                     !.total_losses = @ + result.losses,
                     !.total_pushes = @ + result.pushes]

\* main after the loop: the summary
main_summary(run) == [run EXCEPT !.state = "summary"]

\* ------------------------------------------------------------ the calls

\* settle_bet: result = self.determine_bet_result(bet)
CallDetermineBetResult ==
    /\ arg.fn = "determine_bet_result"
    /\ applied = 0
    /\ out' = determine_bet_result(arg.bet)
    /\ applied' = 1
    /\ UNCHANGED <<dbVars, agentVars, settleDbVars, settleVars, genVars, arg>>

\* settle_bet: profit_loss = self.calculate_profit_loss(bet, result)
CallCalculateProfitLoss ==
    /\ arg.fn = "calculate_profit_loss"
    /\ applied = 0
    /\ out' = calculate_profit_loss(arg.bet, arg.result)
    /\ applied' = 1
    /\ UNCHANGED <<dbVars, agentVars, settleDbVars, settleVars, genVars, arg>>

\* settle_bets_for_game: determine_bet_outcome and profit_from_bet for one bet
CallSettledRow ==
    /\ arg.fn = "settled_row"
    /\ applied = 0
    /\ out' = settled_row(arg.bet, arg.home_score, arg.away_score)
    /\ applied' = 1
    /\ UNCHANGED <<dbVars, agentVars, settleDbVars, settleVars, genVars, arg>>

\* update_bankroll on the row it left behind, the bets unchanged
CallUpdateBankroll ==
    /\ arg.fn = "update_bankroll"
    /\ applied < 2
    /\ out' = update_bankroll(out, arg.paper_bets)
    /\ applied' = applied + 1
    /\ UNCHANGED <<dbVars, agentVars, settleDbVars, settleVars, genVars, arg>>

\* update_team_elos: update_elo_ratings(home_elo, away_elo, home_score, away_score)
CallUpdateEloRatings ==
    /\ arg.fn = "update_elo_ratings"
    /\ applied = 0
    /\ out' = update_elo_ratings(arg.home_elo, arg.away_elo,
                                 arg.home_score, arg.away_score)
    /\ applied' = 1
    /\ UNCHANGED <<dbVars, agentVars, settleDbVars, settleVars, genVars, arg>>

\* update_ratings_from_results: one turn of its loop over the sorted rows
CallUpdateRatingsFromRow ==
    /\ arg.fn = "update_ratings_from_results"
    /\ applied < Len(arg.results_df)
    /\ out' = update_ratings_from_row(out, sort_values(arg.results_df)[applied + 1])
    /\ applied' = applied + 1
    /\ UNCHANGED <<dbVars, agentVars, settleDbVars, settleVars, genVars, arg>>

\* kelly_fraction(fair_prob, decimal_odds, fraction), next to the full Kelly
\* value kelly_fraction(fair_prob, decimal_odds, 1.0)
CallKellyFraction ==
    /\ arg.fn = "kelly_fraction"
    /\ applied = 0
    /\ out' = [kelly |-> kelly_fraction(arg.fair_prob, arg.decimal_odds, arg.fraction),
               full |-> kelly_fraction(arg.fair_prob, arg.decimal_odds, <<1, 1>>)]
    /\ applied' = 1
    /\ UNCHANGED <<dbVars, agentVars, settleDbVars, settleVars, genVars, arg>>

\* decimal_to_american(american_to_decimal(american))
CallRoundTrip ==
    /\ arg.fn = "round_trip"
    /\ applied = 0
    /\ \E back_to_american \in decimal_to_american(american_to_decimal(arg.american)) :
          out' = back_to_american
    /\ applied' = 1
    /\ UNCHANGED <<dbVars, agentVars, settleDbVars, settleVars, genVars, arg>>

\* american_to_decimal(american_odds)
CallAmericanToDecimal ==
    /\ arg.fn = "american_to_decimal"
    /\ applied = 0
    /\ out' = american_to_decimal_outcome(arg.american)
    /\ applied' = 1
    /\ UNCHANGED <<dbVars, agentVars, settleDbVars, settleVars, genVars, arg>>

\* implied_probability(american_odds)
CallImpliedProbability ==
    /\ arg.fn = "implied_probability"
    /\ applied = 0
    /\ out' = implied_probability_outcome(arg.american)
    /\ applied' = 1
    /\ UNCHANGED <<dbVars, agentVars, settleDbVars, settleVars, genVars, arg>>

\* generate_signals_for_game: odds_by_market and the implied_prob of each row
CallGetDeviggedProbability ==
    /\ arg.fn = "get_devigged_probability"
    /\ applied = 0
    /\ out' = implied_probs_from_odds(arg.odds_snapshots)
    /\ applied' = 1
    /\ UNCHANGED <<dbVars, agentVars, settleDbVars, settleVars, genVars, arg>>

\* generate_signals_for_game(game) on the odds rows of the game
CallSignalsFromOdds ==
    /\ arg.fn = "generate_signals_for_game"
    /\ applied = 0
    /\ out' = signals_from_odds(arg.game, arg.odds_snapshots)
    /\ applied' = 1
    /\ UNCHANGED <<dbVars, agentVars, settleDbVars, settleVars, genVars, arg>>

\* make_decision: kelly_stake, actual_stake = self.calculate_stake(signal, confidence_score)
CallCalculateStake ==
    /\ arg.fn = "calculate_stake"
    /\ applied = 0
    /\ out' = calculate_stake(arg.agent, arg.signal, arg.confidence_score)
    /\ applied' = 1
    /\ UNCHANGED <<dbVars, agentVars, settleDbVars, settleVars, genVars, arg>>

\* calculate_confidence_score(signal) at two moments before the game, the
\* signal otherwise the same
CallCalculateConfidenceScore ==
    /\ arg.fn = "calculate_confidence_score"
    /\ applied < 2
    /\ out' = Append(out, calculate_confidence_score(
                   [arg.signal EXCEPT !.hours_until_game = arg.hours[applied + 1]]))
    /\ applied' = applied + 1
    /\ UNCHANGED <<dbVars, agentVars, settleDbVars, settleVars, genVars, arg>>

\* fetch_with_backoff: request_fn is invoked once more
FetchAttempt ==
    /\ arg.fn = "fetch_with_backoff"
    /\ out.state = "running"
    /\ out.attempt < arg.max_retries
    /\ \E outcome \in {"ok", "retryable", "other"} : out' = fetch_attempt(out, arg.max_retries, outcome)
    /\ applied' = applied + 1
    /\ UNCHANGED <<dbVars, agentVars, settleDbVars, settleVars, genVars, arg>>

\* fetch_with_backoff: range(max_retries) is used up
FetchLoopEnd ==
    /\ arg.fn = "fetch_with_backoff"
    /\ out.state = "running"
    /\ out.attempt >= arg.max_retries
    /\ out' = fetch_loop_end(out)
    /\ UNCHANGED <<dbVars, agentVars, settleDbVars, settleVars, genVars, arg, applied>>

\* execute_with_retry: func is invoked once more
ExecuteAttempt ==
    /\ arg.fn = "execute_with_retry"
    /\ out.state = "running"
    /\ out.attempt < arg.max_retries
    /\ \E outcome \in {"ok", "retryable", "other"} : out' = execute_attempt(out, arg.max_retries, outcome)
    /\ applied' = applied + 1
    /\ UNCHANGED <<dbVars, agentVars, settleDbVars, settleVars, genVars, arg>>

\* execute_with_retry: range(self.max_retries) is used up
ExecuteLoopEnd ==
    /\ arg.fn = "execute_with_retry"
    /\ out.state = "running"
    /\ out.attempt >= arg.max_retries
    /\ out' = execute_loop_end(out)
    /\ UNCHANGED <<dbVars, agentVars, settleDbVars, settleVars, genVars, arg, applied>>

\* main: for league in leagues, the next league
MainLeague ==
    /\ arg.fn = "main"
    /\ out.state = "running"
    /\ applied < Len(arg.leagues)
    /\ out' = main_league(out, process_results_for_league_return(arg.leagues[applied + 1]))
    /\ applied' = applied + 1
    /\ UNCHANGED <<dbVars, agentVars, settleDbVars, settleVars, genVars, arg>>

\* main: the loop is over, the summary is printed
MainSummary ==
    /\ arg.fn = "main"
    /\ out.state = "running"
    /\ applied = Len(arg.leagues)
    /\ out' = main_summary(out)
    /\ UNCHANGED <<dbVars, agentVars, settleDbVars, settleVars, genVars, arg, applied>>

\* -------------------------------------------------------------- arguments
\* the arguments the calls are made with, one record for a call
CalcInputs ==
    LET \* what process_results_for_league does for a league: fetch_results raises,
        \* returns no completed game, or returns games that are then processed
        LeagueKinds == {"fetch_failed", "no_results", "results"}

        ScoreValues == {17, 20, 23}

        \* spread lines in half points: none, pick'em, 3, 3.5 either way
        SpreadLines == {None, 0, -6, 6, -7, 7}

        \* a row of get_pending_paper_bets
        PaperBetInput(market, selection, line, home_score, away_score) ==
            [id |-> 1, market_name |-> market, selection |-> selection,
             line_value |-> line, home_score |-> home_score, away_score |-> away_score,
             stake |-> 1000, odds_american |-> -110]

        ResultInputs ==
            { [fn |-> "determine_bet_result", bet |-> PaperBetInput(m[1], m[2], m[3], h, a)] :
                m \in ({"spread"} \X {"home", "away"} \X SpreadLines)
                      \cup ({"moneyline"} \X {"home", "away"} \X {None})
                      \cup ({"total"} \X {"over", "under"} \X {74, 80})
                      \cup ({"player_points"} \X {"over"} \X {41}),
                h \in ScoreValues, a \in ScoreValues }

        ProfitInputs ==
            { [fn |-> "calculate_profit_loss",
               bet |-> [id |-> 1, stake |-> s, odds_american |-> o], result |-> r] :
                s \in {1000, 1001, 225, 12345},
                o \in {-110, -150, -105, 100, 150},
                r \in {"won", "lost", "push", "void"} }

        SettledRowInputs ==
            { [fn |-> "settled_row", bet |-> BetRow(1, 1, m[1], o, 1100, m[2]),
               home_score |-> h, away_score |-> a] :
                m \in ({"spread"} \X (SpreadLines \cup {None})) \cup ({"moneyline"} \X {None})
                      \cup ({"total"} \X {74, 80, None}) \cup ({"player_points"} \X {41}),
                o \in {-110, 150},
                h \in ScoreValues, a \in ScoreValues }

        HistoryBet(i, stake, status, profit_loss) ==
            [id |-> i, stake |-> stake, status |-> status,
             result |-> IF status = "pending" THEN "null" ELSE status,
             profit_loss |-> profit_loss]

        \* paper_bets histories: none, one with a bet still pending, one with every
        \* result
        Histories ==
            { <<>>,
              << HistoryBet(1, 1000, "won", 909), HistoryBet(2, 500, "lost", -500),
                 HistoryBet(3, 300, "pending", None) >>,
              << HistoryBet(1, 1000, "won", 1500), HistoryBet(2, 1100, "push", 0),
                 HistoryBet(3, 700, "void", 0), HistoryBet(4, 1001, "lost", -1001),
                 HistoryBet(5, 225, "lost", -225) >> }

        \* paper_bankroll rows: as created, and with figures that match no history
        StoredBankrolls ==
            { BankrollRow(100000),
              [BankrollRow(100000) EXCEPT !.balance = 123456, !.total_bets = 9,
                                          !.total_profit_loss = -55, !.win_count = 7,
                                          !.loss_count = 1, !.push_count = 4] }

        BankrollInputs ==
            { [fn |-> "update_bankroll", row |-> r, paper_bets |-> h] :
                r \in StoredBankrolls, h \in Histories }

        EloInputs ==
            { [fn |-> "update_elo_ratings", home_elo |-> h, away_elo |-> a,
               home_score |-> s[1], away_score |-> s[2]] :
                h \in {140000, 150000, 151234, 165000},
                a \in {140000, 150000, 151234, 165000},
                s \in Scores }

        ResultRow(g, home, away, home_score, away_score, game_date) ==
            [game_id |-> g, home_team_id |-> home, away_team_id |-> away,
             home_score |-> home_score, away_score |-> away_score,
             game_date |-> game_date]

        ResultFrames ==
            { << ResultRow(1, 1, 2, 24, 17, 1) >>,
              << ResultRow(1, 1, 2, 17, 24, 1) >>,
              << ResultRow(1, 1, 2, 20, 20, 1) >>,
              << ResultRow(2, 2, 3, 20, 20, 2), ResultRow(1, 1, 2, 24, 17, 1) >>,
              << ResultRow(1, 3, 1, 17, 24, 1), ResultRow(2, 1, 2, 24, 17, 2) >> }

        \* self.team_elos before the batch: empty, initialize_elos, or rated teams
        StartingElos ==
            { <<>>,
              [t \in {1, 2, 3} |-> default_elo * 100],
              [t \in {1, 2, 3} |-> IF t = 1 THEN 160000 ELSE IF t = 2 THEN 140000 ELSE 151234] }

        RatingInputs ==
            { [fn |-> "update_ratings_from_results", team_elos |-> e, results_df |-> f] :
                e \in StartingElos, f \in ResultFrames }

        \* probabilities k / ProbSteps; decimal odds 1.5, 21/11 (-110), 2, 3, 4
        KellyInputs ==
            { [fn |-> "kelly_fraction", fair_prob |-> <<k, ProbSteps>>,
               decimal_odds |-> d, fraction |-> f] :
                k \in 0..ProbSteps,
                d \in {<<3, 2>>, <<21, 11>>, <<2, 1>>, <<3, 1>>, <<4, 1>>},
                f \in {<<1, 4>>, <<1, 2>>, <<1, 1>>} }

        \* valid American odds: at least 100 either way
        OddsInputs ==
            { [fn |-> "round_trip", american |-> a] :
                a \in {x \in -MaxOdds..MaxOdds : Abs(x) >= 100} }

        \* any integer the caller may pass, zero among them
        ConversionInputs ==
            { [fn |-> f, american |-> a] :
                f \in {"american_to_decimal", "implied_probability"},
                a \in {-150, -110, -100, -1, 0, 1, 100, 120} }

        \* odds_snapshots rows: line_value in half points (spreads keep their sign,
        \* totals are stored positive), implied_probability in 1e-4
        OddsRow(market_id, market_name, sportsbook, selection, odds_american,
                implied, line_value) ==
            [market_id |-> market_id, market_name |-> market_name,
             sportsbook |-> sportsbook, selection |-> selection,
             odds_american |-> odds_american,
             implied_probability |-> implied, line_value |-> line_value]

        OddsRows ==
            << OddsRow(1, "spread", "dk", "home", -110, 5238, -6),
               OddsRow(1, "spread", "dk", "away", -110, 5238, 6),
               OddsRow(2, "total", "dk", "Over", -110, 5238, 90),
               OddsRow(2, "total", "dk", "Under", -105, 5122, 90),
               OddsRow(3, "moneyline", "dk", "home", -150, 6000, None),
               OddsRow(3, "moneyline", "dk", "away", 130, 4348, None),
               OddsRow(1, "spread", "fd", "home", -110, 5238, 0),
               OddsRow(1, "spread", "fd", "away", -110, 5238, 0),
               OddsRow(3, "moneyline", "fd", "", -140, 5833, None),
               OddsRow(1, "spread", "mgm", "home", -115, 5349, None),
               OddsRow(4, "player_points", "dk", "Over", 100, 5000, 50),
               OddsRow(3, "moneyline", "mgm", "Draw", 250, 2857, None) >>

        \* the rows of one game, as indices into OddsRows
        OddsLists ==
            { <<>>, <<1>>, <<1, 2>>, <<3, 4>>, <<5, 6>>, <<7, 8>>, <<9, 5, 6>>,
              <<10, 3>>, <<11, 1>>, <<12, 5>>, <<1, 5, 6>>, <<1, 2, 3, 4>> }

        odds_snapshots_of(list) == [k \in 1..Len(list) |-> OddsRows[list[k]]]

        \* what the rating model gives the home side, in 1e-4
        ModelProbs == {2500, 4562, 5000, 5438, 5600, 6500, 7238, 7500}

        GenGameOf(model_prob, insufficient_sample) ==
            [game_id |-> 1, sport |-> "nfl", model_prob |-> model_prob,
             insufficient_sample |-> insufficient_sample]

        DevigInputs ==
            { [fn |-> "get_devigged_probability", odds_snapshots |-> odds_snapshots_of(l)] :
                l \in OddsLists }

        SignalsFromOddsInputs ==
            { [fn |-> "generate_signals_for_game", game |-> GenGameOf(p, s),
               odds_snapshots |-> odds_snapshots_of(l)] :
                p \in ModelProbs, s \in BOOLEAN, l \in OddsLists }

        \* signals whose edge is the model's probability less the implied probability
        \* 1 / decimal odds of the price: -150 is 0.6, +100 is 0.5, +150 is 0.4
        PricedSignals ==
            { [odds_american |-> o[1], edge_percent |-> e,
               fair_probability |-> <<o[2] + e, 1000>>] :
                o \in {<<-150, 600>>, <<100, 500>>, <<150, 400>>}, e \in {20, 50, 120} }

        StakeInputs ==
            { [fn |-> "calculate_stake",
               agent |-> [strategy |-> s, bankroll |-> BankrollRow(b), pending_bets |-> <<>>],
               signal |-> sig, confidence_score |-> c] :
                s \in Strategies, b \in Balances, sig \in PricedSignals, c \in {45, 100} }

        HoursUntilGame == {12, 24, 36, 48, 72}

        ConfidenceInputs ==
            { [fn |-> "calculate_confidence_score",
               signal |-> SignalRow(1, 1, Profiles[p]), hours |-> <<h1, h2>>] :
                p \in 1..Len(Profiles), h1 \in HoursUntilGame, h2 \in HoursUntilGame }

        RetryInputs ==
            { [fn |-> f, max_retries |-> n] :
                f \in {"fetch_with_backoff", "execute_with_retry"}, n \in 0..MaxRetries }

        \* the leagues of a run, by what their results fetch does
        MainInputs ==
            { [fn |-> "main", leagues |-> l] :
                l \in UNION {[1..n -> LeagueKinds] : n \in 1..3} }
    IN  ResultInputs \cup ProfitInputs \cup SettledRowInputs \cup BankrollInputs
            \cup EloInputs \cup RatingInputs \cup KellyInputs \cup OddsInputs
            \cup ConversionInputs \cup DevigInputs \cup SignalsFromOddsInputs
            \cup StakeInputs \cup ConfidenceInputs \cup RetryInputs \cup MainInputs

\* what the call starts from: the stored row, the ratings, the helper or main
\* before its loop, or nothing
InitialOut(a) ==
    IF a.fn = "update_bankroll" THEN a.row
    ELSE IF a.fn = "update_ratings_from_results" THEN a.team_elos
    ELSE IF a.fn \in {"fetch_with_backoff", "execute_with_retry"}
    THEN [state |-> "running", attempt |-> 0, outcomes |-> <<>>, result |-> "none"]
    ELSE IF a.fn = "main"
    THEN [state |-> "running", total_games |-> 0, total_bets |-> 0, total_wins |-> 0,
          total_losses |-> 0, total_pushes |-> 0, result |-> "none"]
    ELSE <<>>

InitCalc ==
    /\ paper_betting_strategies = CHOOSE s \in Strategies : TRUE
    /\ paper_bankroll = BankrollRow(100060)
    /\ signals = <<>>
    /\ paper_bets = <<>>
    /\ paper_bet_decisions = <<>>
    /\ agent = NoAgent
    /\ pc = "idle"
    /\ candidates = <<>>
    /\ idx = 0
    /\ bets_placed = 0
    /\ max_bets = 0
    /\ cur = NoDecision
    /\ runNo = 0
    /\ games = <<>>
    /\ bets = <<>>
    /\ clv_history = <<>>
    /\ team_elos = <<>>
    /\ spc = "idle"
    /\ todo = <<>>
    /\ sidx = 0
    /\ tally = <<>>
    /\ settleNo = 0
    /\ now = 0
    /\ gpc = "idle"
    /\ league = 0
    /\ loaded = <<>>
    /\ gidx = 0
    /\ genNo = 0
    /\ all_signals = <<>>
    /\ arg \in CalcInputs
    /\ out = InitialOut(arg)
    /\ applied = 0

NextCalc ==
    \/ CallDetermineBetResult
    \/ CallCalculateProfitLoss
    \/ CallSettledRow
    \/ CallUpdateBankroll
    \/ CallUpdateEloRatings
    \/ CallUpdateRatingsFromRow
    \/ CallKellyFraction
    \/ CallRoundTrip
    \/ CallAmericanToDecimal
    \/ CallImpliedProbability
    \/ CallGetDeviggedProbability
    \/ CallSignalsFromOdds
    \/ CallCalculateStake
    \/ CallCalculateConfidenceScore
    \/ FetchAttempt
    \/ FetchLoopEnd
    \/ ExecuteAttempt
    \/ ExecuteLoopEnd
    \/ MainLeague
    \/ MainSummary

SpecCalc == InitCalc /\ [][NextCalc]_vars

\* ======================================================================
\* Properties of the paper betting agent (checked under Spec)
\* ======================================================================

OnSameGame(tbl, signal) == Len(SelectSeq(tbl, LAMBDA bet : bet.game_id = signal.game_id))
LastDecision == paper_bet_decisions[Len(paper_bet_decisions)]
DecisionsOf(run, sid) ==
    {k \in 1..Len(paper_bet_decisions) :
        paper_bet_decisions[k].run = run /\ paper_bet_decisions[k].signal_id = sid}
BetsOf(run, sid) ==
    {b \in 1..Len(paper_bets) : paper_bets[b].run = run /\ paper_bets[b].signal_id = sid}
PendingTotal(tbl) == StakeTotal(SelectSeq(tbl, LAMBDA bet : bet.status = "pending"))
\* positions of candidates whose decision has been made and logged in this run
Evaluated == (1..(idx - 1)) \cup (IF pc = "logged" THEN {idx} ELSE {})

\* C1: if a pending bet of the agent's list is on the signal's game, then
\* make_decision returns skip and the correlation risk logged with the
\* decision is high
C1_SameGameIsSkippedHigh ==
    pc = "logged" =>
        LET signal == signals[candidates[idx]]
        IN  OnSameGame(agent.pending_bets, signal) > 0 =>
                /\ cur.decision = "skip"
                /\ LastDecision.signal_id = signal.id
                /\ LastDecision.decision = "skip"
                /\ LastDecision.correlation_risk = "high"

C1_Witness ==
    /\ pc = "logged"
    /\ OnSameGame(agent.pending_bets, signals[candidates[idx]]) = 2
    /\ LastDecision.correlation_risk = "high"
    /\ cur.decision = "skip"

\* C2: whenever make_decision returns place, the rounded actual_stake is at
\* most balance * max_stake_pct / 100, and the stake pending on the game plus
\* actual_stake is at most balance * max_exposure_per_game / 100
C2_PlacedStakeWithinBothCaps ==
    pc = "logged" /\ cur.decision = "place" =>
        LET signal == signals[candidates[idx]]
            game_exposure == StakeTotal(SelectSeq(agent.pending_bets,
                                      LAMBDA bet : bet.game_id = signal.game_id))
        IN  /\ ~FLess(max_stake(agent), <<cur.actual_stake, 1>>)
            /\ ~FLess(max_game_exposure(agent), <<game_exposure + cur.actual_stake, 1>>)

\* C3: no run places two bets on the same game
C3_OneBetPerGamePerRun ==
    \A i, j \in 1..Len(paper_bets) :
        (i < j /\ paper_bets[i].run > 0 /\ paper_bets[i].run = paper_bets[j].run)
            => paper_bets[i].game_id # paper_bets[j].game_id

\* C4: after a run, the pending stakes total at most 30% of the balance,
\* provided they did before the run (the agent's list is the pending bets at
\* the start of the run)
C4_TotalPendingWithinCeiling ==
    pc = "done" =>
        (10 * PendingTotal(agent.pending_bets) <= 3 * agent.bankroll.balance
            => 10 * PendingTotal(paper_bets) <= 3 * paper_bankroll.balance)

\* C5: from construction to the end of run(), the agent's pending_bets and
\* bankroll are the values __init__ read: no step changes them, and they are
\* the table contents as of construction even after a bet is placed
C5_ViewReadAtConstruction ==
    pc \in {"constructed", "loop", "logged", "done"} =>
        /\ agent.bankroll = paper_bankroll
        /\ agent.pending_bets =
              get_pending_bets(SelectSeq(paper_bets, LAMBDA bet : bet.run < runNo))

ViewKeptByStep ==
    pc \in {"constructed", "loop", "logged"} =>
        (agent'.pending_bets = agent.pending_bets /\ agent'.bankroll = agent.bankroll)

C5_ViewFixedDuringRun == []C5_ViewReadAtConstruction /\ [][ViewKeptByStep]_vars

C5_Witness ==
    /\ pc = "loop"
    /\ idx <= Len(candidates)
    /\ \E b \in 1..Len(paper_bets) : paper_bets[b].run = runNo
    /\ agent.pending_bets # get_pending_bets(paper_bets)

\* C8: in a run, every candidate the loop has evaluated has exactly one
\* decision row of that run, a candidate not yet evaluated has none, and a bet
\* of the run is in the table only when the decision row of its signal is
C8_OneDecisionPerEvaluatedSignal ==
    pc \in {"loop", "logged", "done"} =>
        /\ \A k \in 1..Len(candidates) :
              Cardinality(DecisionsOf(runNo, candidates[k])) =
                  IF k \in Evaluated THEN 1 ELSE 0
        /\ \A b \in 1..Len(paper_bets) :
              paper_bets[b].run = runNo =>
                  Cardinality(DecisionsOf(runNo, paper_bets[b].signal_id)) = 1

C8_Witness ==
    /\ pc = "loop"
    /\ idx = 4
    /\ \E k \in 1..3 : BetsOf(runNo, candidates[k]) # {}
    /\ \E k \in 1..Len(paper_bet_decisions) :
          /\ paper_bet_decisions[k].run = runNo
          /\ paper_bet_decisions[k].decision = "skip"

\* C9: once the loop body has finished for a candidate, a bet of the run is in
\* the table for it iff its decision row says place; the bet is pending and
\* its stake is the decision's actual_stake; the run inserts no other bet
C9_BetIffPlaceDecision ==
    pc \in {"loop", "done"} =>
        /\ \A k \in 1..Len(candidates) :
              k < idx =>
                  \A r \in DecisionsOf(runNo, candidates[k]) :
                      /\ (BetsOf(runNo, candidates[k]) # {})
                            <=> (paper_bet_decisions[r].decision = "place")
                      /\ Cardinality(BetsOf(runNo, candidates[k])) <= 1
                      /\ \A b \in BetsOf(runNo, candidates[k]) :
                            /\ paper_bets[b].status = "pending"
                            /\ paper_bets[b].stake = paper_bet_decisions[r].actual_stake
        /\ \A b \in 1..Len(paper_bets) :
              paper_bets[b].run = runNo =>
                  \E k \in 1..Len(candidates) :
                      k < idx /\ candidates[k] = paper_bets[b].signal_id

C9_Witness ==
    /\ pc = "loop"
    /\ idx = 3
    /\ BetsOf(runNo, candidates[1]) # {}
    /\ BetsOf(runNo, candidates[2]) = {}
    /\ DecisionsOf(runNo, candidates[2]) # {}

\* C10, for every decision: across all runs there is at most one decision per
\* signal (a skipped signal is evaluated again by the next run)
C10_AtMostOneDecisionPerSignal ==
    \A i, j \in 1..Len(paper_bet_decisions) :
        i < j => paper_bet_decisions[i].signal_id # paper_bet_decisions[j].signal_id

\* C10, for placed signals: while the bet placed for a signal is pending, no later run
\* has the signal among its candidates or logs another decision for it
C10_PlacedSignalNotReselected ==
    \A b \in 1..Len(paper_bets) :
        paper_bets[b].status = "pending" =>
            /\ \A k \in 1..Len(paper_bet_decisions) :
                  paper_bet_decisions[k].signal_id = paper_bets[b].signal_id
                      => paper_bet_decisions[k].run <= paper_bets[b].run
            /\ (runNo > paper_bets[b].run /\ pc \in {"loop", "logged", "done"})
                  => \A k \in 1..Len(candidates) : candidates[k] # paper_bets[b].signal_id

C10_Witness ==
    /\ pc = "loop"
    /\ idx > Len(candidates)
    /\ candidates # <<>>
    /\ \E b \in 1..Len(paper_bets) :
          /\ paper_bets[b].run > 0
          /\ paper_bets[b].run < runNo
          /\ IsCandidate_all(agent.strategy, paper_bets, signals[paper_bets[b].signal_id])


\* ======================================================================
\* Properties of the settlement jobs (checked under SpecSettle)
\* ======================================================================

TerminalStatus == {"won", "lost", "push", "void"}
SettledResult == {"win", "loss", "push", "void"}

\* the statuses a bet can have, and how often a row has been settled
BetStatusesValid ==
    /\ \A b \in 1..Len(paper_bets) :
          /\ paper_bets[b].status \in {"pending"} \cup TerminalStatus
          /\ paper_bets[b].status = "pending" => paper_bets[b].profit_loss = None
    /\ \A b \in 1..Len(bets) :
          /\ bets[b].settles = IF bets[b].settled THEN 1 ELSE 0
          /\ bets[b].settled <=> bets[b].result \in SettledResult
          /\ bets[b].settled <=> bets[b].profit_loss # None

\* what one step may do to a bet: settle a pending one, and nothing to a
\* settled one; a settlement run selects pending bets only
BetSettledOnceStep ==
    /\ \A b \in 1..Len(paper_bets) :
          /\ paper_bets'[b].status # paper_bets[b].status
                => (paper_bets[b].status = "pending"
                    /\ paper_bets'[b].status \in TerminalStatus)
          /\ paper_bets[b].status \in TerminalStatus => paper_bets'[b] = paper_bets[b]
    /\ \A b \in 1..Len(bets) :
          /\ bets[b].settled => bets'[b] = bets[b]
          /\ bets'[b] # bets[b] => (bets'[b].settled /\ bets'[b].settles = 1)
    /\ (spc = "idle" /\ spc' = "paper_loop")
          => \A i \in 1..Len(todo') : paper_bets[todo'[i].id].status = "pending"

C7_CompletedGameBetsLeavePending ==
    spc = "paper_end" =>
        \A b \in 1..Len(paper_bets) : ~IsSettleable(games, signals, paper_bets[b])

\* the run selected bets, went through all of them, and they are still pending
C7_Witness ==
    /\ spc = "paper_end"
    /\ Len(todo) = 3
    /\ sidx = 4
    /\ \A i \in 1..3 : paper_bets[todo[i].id].status = "pending"
    /\ tally.settled_count = 0

\* ======================================================================
\* Properties of the signal generation (checked under SpecGen)
\* ======================================================================

IsActive(row) == row.status = "active"

\* no two active rows of signals share (game, market, sportsbook, price)
ActiveKeysUnique ==
    \A i, j \in 1..Len(signals) :
        (i # j /\ IsActive(signals[i]) /\ IsActive(signals[j]))
            => ~SameSignalKey(signals[i], signals[j])

\* the signals a step of the loop over the games has saved
SavedByStep == {k \in 1..Len(all_signals') : gpc = "games" /\ k > Len(all_signals)}

\* a step keeps the id, the key and the status of every row; each signal it
\* saves comes back with the id of the active row of its key, the id of the
\* row that was there before the step when there was one; and the row holds
\* the fields of the signal saved last under its key
UpsertInPlaceStep ==
    /\ Len(signals') >= Len(signals)
    /\ \A i \in 1..Len(signals) :
          /\ signals'[i].id = signals[i].id
          /\ signals'[i].status = signals[i].status
          /\ SameSignalKey(signals'[i], signals[i])
    /\ \A k \in SavedByStep :
          LET s == all_signals'[k]
          IN  /\ s.id \in 1..Len(signals')
              /\ signals'[s.id].id = s.id
              /\ IsActive(signals'[s.id])
              /\ SameSignalKey(signals'[s.id], s)
              /\ \A i \in 1..Len(signals) :
                    (IsActive(signals[i]) /\ SameSignalKey(signals[i], s))
                        => s.id = signals[i].id
              /\ (\A l \in SavedByStep : l > k => ~SameSignalKey(all_signals'[l], s))
                    => /\ signals'[s.id].edge_percent = s.edge_percent
                       /\ signals'[s.id].confidence_level = s.confidence_level
                       /\ signals'[s.id].expires_at = s.expires_at

\* C11: after any sequence of generation runs there is at most one active
\* signal per (game, market, sportsbook, price); saving a signal whose key
\* matches an active row updates that row in place and returns its id
C11_OneActiveSignalPerKey == []ActiveKeysUnique /\ [][UpsertInPlaceStep]_vars

\* the second run has saved two signals of one key on game 2: both came back
\* with the id of the one active row of that key, which stands next to the
\* expired row of the same key and holds what was saved last
C11_Witness ==
    /\ genNo = 2
    /\ Len(signals) = 2
    /\ ~IsActive(signals[1])
    /\ IsActive(signals[2])
    /\ SameSignalKey(signals[1], signals[2])
    /\ signals[2].generated_at > 0
    /\ Len(all_signals) = 2
    /\ all_signals[1].id = 2
    /\ all_signals[2].id = 2
    /\ signals[2].edge_percent = all_signals[2].edge_percent

\* the scheduled start of a game
ScheduledAt(game_id) == games[game_id].scheduled_at

ExpiryInRangeStep ==
    \A k \in SavedByStep :
        /\ now <= all_signals'[k].expires_at
        /\ all_signals'[k].expires_at <= ScheduledAt(all_signals'[k].game_id)

\* C16: every expiry calculate_expiry_time computes lies between the time of
\* the call and the scheduled start of the game
C16_ExpiryBetweenNowAndStart == [][ExpiryInRangeStep]_vars

\* a signal saved for game 1 after the game has started: its expiry is the
\* scheduled start, which is before the time it was generated at
C16_Witness ==
    \E i \in 1..Len(signals) :
        /\ signals[i].game_id = 1
        /\ signals[i].expires_at = ScheduledAt(1)
        /\ signals[i].generated_at > signals[i].expires_at

\* the upper half of C16, which every step keeps
ExpiryNotAfterStart ==
    \A i \in 1..Len(signals) : signals[i].expires_at <= ScheduledAt(signals[i].game_id)

\* ======================================================================
\* Properties of the library functions and of the settlement functions as
\* functions (checked under SpecCalc)
\* ======================================================================

\* the function fn has been applied to arg and out holds its result
Called(fn) == arg.fn = fn /\ applied > 0

\* home_score + line == away_score, the line in half points
HomeLineTie(bet, home_score, away_score) ==
    /\ bet.line_value # None
    /\ 2 * home_score + bet.line_value = 2 * away_score

\* C12 for every spread bet: final scores with home_score + line == away_score
\* settle as a push, in the paper settlement and in the results settlement
C12_SpreadTieIsPush ==
    /\ (/\ Called("determine_bet_result")
        /\ arg.bet.market_name = "spread"
        /\ HomeLineTie(arg.bet, arg.bet.home_score, arg.bet.away_score))
           => out = "push"
    /\ (/\ Called("settled_row")
        /\ arg.bet.market_name = "spread"
        /\ HomeLineTie(arg.bet, arg.home_score, arg.away_score))
           => out.result = "push"

\* C12 for the bets settled from the home side: a spread bet on the home team
\* in the paper settlement, and every spread bet in the results settlement
\* (which settles every bet as a home bet), is a push when
\* home_score + line == away_score
C12_HomeSpreadTieIsPush ==
    /\ (/\ Called("determine_bet_result")
        /\ arg.bet.market_name = "spread"
        /\ NamesHomeTeam(arg.bet.selection)
        /\ HomeLineTie(arg.bet, arg.bet.home_score, arg.bet.away_score))
           => out = "push"
    /\ (/\ Called("settled_row")
        /\ arg.bet.market_name = "spread"
        /\ HomeLineTie(arg.bet, arg.home_score, arg.away_score))
           => out.result = "push"

\* home +3 at 17-20: a push
C12_Witness ==
    /\ Called("determine_bet_result")
    /\ arg.bet.market_name = "spread"
    /\ arg.bet.selection = "home"
    /\ arg.bet.line_value = 6
    /\ arg.bet.home_score = 17
    /\ arg.bet.away_score = 20
    /\ out = "push"

\* C13: an away spread bet with recorded line L is won iff
\* away_score + L > home_score, a push iff away_score + L == home_score, and
\* lost otherwise, whatever the sign of L
C13_AwaySpreadAddsLine ==
    (/\ Called("determine_bet_result")
     /\ arg.bet.market_name = "spread"
     /\ ~NamesHomeTeam(arg.bet.selection)
     /\ arg.bet.line_value # None)
        => LET adjusted == 2 * arg.bet.away_score + arg.bet.line_value
           IN  out = IF adjusted > 2 * arg.bet.home_score THEN "won"
                     ELSE IF adjusted = 2 * arg.bet.home_score THEN "push"
                     ELSE "lost"

\* away -3 at 17-20 (the away team won by exactly 3): settled as won
C13_Witness ==
    /\ Called("determine_bet_result")
    /\ arg.bet.market_name = "spread"
    /\ arg.bet.selection = "away"
    /\ arg.bet.line_value = -6
    /\ arg.bet.home_score = 17
    /\ arg.bet.away_score = 20
    /\ out = "won"

\* profit_loss (cents) is stake x (decimal_odds - 1) to the nearest cent
IsWinProfit(profit_loss, stake, american) ==
    LET decimal == american_to_decimal(american)
    IN  2 * Abs(profit_loss * decimal[2] - stake * (decimal[1] - decimal[2]))
            <= decimal[2]

\* C14: the profit_loss of a settled bet is stake x (decimal_odds - 1) for a
\* win (to the cent), -stake for a loss and 0 for a push or a void bet, in the
\* paper settlement and in the results settlement
C14_ProfitLossByResult ==
    /\ Called("calculate_profit_loss") =>
          IF arg.result = "won"
          THEN IsWinProfit(out, arg.bet.stake, arg.bet.odds_american)
          ELSE IF arg.result = "lost" THEN out = -arg.bet.stake
          ELSE out = 0
    /\ Called("settled_row") =>
          IF out.result = "win"
          THEN IsWinProfit(out.profit_loss, arg.bet.stake_amount, arg.bet.odds_american)
          ELSE IF out.result = "loss" THEN out.profit_loss = -arg.bet.stake_amount
          ELSE out.profit_loss = 0

\* 10.00 at -110, won: 9.09
C14_Witness ==
    /\ Called("calculate_profit_loss")
    /\ arg.bet.stake = 1000
    /\ arg.bet.odds_american = -110
    /\ arg.result = "won"
    /\ out = 909

\* the bets of a history that are not pending, and those of them with a result
NotPending(tbl) == SelectSeq(tbl, LAMBDA bet : bet.status # "pending")
WithResult(tbl, result) == SelectSeq(NotPending(tbl), LAMBDA bet : bet.result = result)
ProfitLossTotal(tbl) ==
    SumSeq([i \in 1..Len(NotPending(tbl)) |-> NotPending(tbl)[i].profit_loss])

BankrollMatchesHistory ==
    Called("update_bankroll") =>
        /\ out.balance = arg.row.starting_balance + ProfitLossTotal(arg.paper_bets)
        /\ out.win_count = Len(WithResult(arg.paper_bets, "won"))
        /\ out.loss_count = Len(WithResult(arg.paper_bets, "lost"))
        /\ out.push_count = Len(WithResult(arg.paper_bets, "push"))

SecondUpdateKeepsRow ==
    (arg.fn = "update_bankroll" /\ applied = 1 /\ applied' = 2) => out' = out

\* C15: after update_bankroll the balance is starting_balance plus the
\* profit_loss of all bets that are not pending and the counts are those of
\* the same bets, whatever the row held before; a second update_bankroll with
\* no settlement in between changes nothing
C15_BankrollRecomputedFromHistory ==
    []BankrollMatchesHistory /\ [][SecondUpdateKeepsRow]_vars

\* a row whose figures matched no history, after two updates over five
\* settled bets
C15_Witness ==
    /\ arg.fn = "update_bankroll"
    /\ applied = 2
    /\ arg.row.balance = 123456
    /\ Len(arg.paper_bets) = 5
    /\ out.balance = 100274
    /\ out.win_count = 1
    /\ out.loss_count = 2
    /\ out.push_count = 1

\* C17: update_elo_ratings is zero-sum for every pair of ratings and every
\* result: new_home_elo + new_away_elo == home_elo + away_elo
C17_EloUpdateZeroSum ==
    Called("update_elo_ratings") =>
        out[1] + out[2] = arg.home_elo + arg.away_elo

\* a tie between unequal teams moves both ratings
C17_Witness ==
    /\ Called("update_elo_ratings")
    /\ arg.home_elo = 151234
    /\ arg.away_elo = 140000
    /\ arg.home_score = arg.away_score
    /\ out[1] < arg.home_elo
    /\ out[2] > arg.away_elo

\* the total rating of the teams of the league
TotalRating(elos) == elo_of(elos, 1) + elo_of(elos, 2) + elo_of(elos, 3)

\* C18: the batch updater leaves the total rating over all teams unchanged,
\* after any number of games
C18_BatchUpdateConservesTotal ==
    arg.fn = "update_ratings_from_results" =>
        TotalRating(out) = TotalRating(arg.team_elos)

\* one home win between two teams at 1500: the total has changed
C18_Witness ==
    /\ Called("update_ratings_from_results")
    /\ applied = 1
    /\ Len(arg.results_df) = 1
    /\ elo_of(arg.team_elos, 1) = elo_of(arg.team_elos, 2)
    /\ arg.results_df[1].home_score > arg.results_df[1].away_score
    /\ TotalRating(out) < TotalRating(arg.team_elos)

\* fair_prob <= 1 / decimal_odds
NoEdge(fair_prob, decimal_odds) ==
    fair_prob[1] * decimal_odds[1] <= fair_prob[2] * decimal_odds[2]

\* C19: kelly_fraction is 0 when fair <= 1 / decimal_odds, positive when
\* fair > 1 / decimal_odds, and equal to fraction times the full Kelly value
C19_KellyZeroPositiveLinear ==
    Called("kelly_fraction") =>
        /\ NoEdge(arg.fair_prob, arg.decimal_odds) => out.kelly = <<0, 1>>
        /\ ~NoEdge(arg.fair_prob, arg.decimal_odds) => out.kelly[1] > 0
        /\ out.kelly[1] * out.full[2] * arg.fraction[2]
               = out.full[1] * arg.fraction[1] * out.kelly[2]

\* fair 7/12 at even odds: full Kelly 1/6, half Kelly 1/12
C19_Witness ==
    /\ Called("kelly_fraction")
    /\ arg.fair_prob = <<7, 12>>
    /\ arg.decimal_odds = <<2, 1>>
    /\ arg.fraction = <<1, 2>>
    /\ out.full = <<1, 6>>
    /\ out.kelly = <<1, 12>>

\* C20 for all valid odds: the round trip through decimal odds comes back
\* within 1 unit of a, a = -100 and a = +100 included
C20_RoundTripWithinOne ==
    Called("round_trip") => Abs(out - arg.american) <= 1

\* C20 for all valid odds but -100: the round trip comes back within 1 unit
\* of a; -100 comes back as +100
C20_RoundTripWithinOneButMinus100 ==
    Called("round_trip") =>
        IF arg.american = -100 THEN out = 100
        ELSE Abs(out - arg.american) <= 1

\* +115 comes back as +114
C20_Witness ==
    /\ Called("round_trip")
    /\ arg.american = 115
    /\ out = 114
\* C21, as stated: american_to_decimal(0) and implied_probability(0) return
\* no value and fail with InvalidOddsError.
C21_ZeroOddsFailWithInvalidOddsError ==
    (Called("american_to_decimal") \/ Called("implied_probability"))
        => (arg.american = 0 => out.raised = "InvalidOddsError" /\ out.value = <<>>)

\* C21, amended: american_to_decimal(0) and implied_probability(0) return no
\* value; the failure is the ZeroDivisionError of 100 / abs(0).  Every other
\* integer gets a value.
C21_ZeroOddsFailWithZeroDivisionError ==
    (Called("american_to_decimal") \/ Called("implied_probability"))
        => /\ arg.american = 0 => out.raised = "ZeroDivisionError" /\ out.value = <<>>
           /\ arg.american # 0 => out.raised = "none" /\ out.value # <<>>

C21_Witness ==
    /\ Called("implied_probability")
    /\ arg.american = 0
    /\ out.raised # "none"
    /\ out.value = <<>>


\* ======================================================================
\* Properties of the odds loop of generate_signals_for_game (checked under
\* SpecCalc)
\* ======================================================================

\* rows i and j are the home and the away side of one spread at one book
SpreadPair(rows, i, j) ==
    /\ rows[i].market_name = "spread" /\ rows[j].market_name = "spread"
    /\ rows[i].market_id = rows[j].market_id
    /\ rows[i].sportsbook = rows[j].sportsbook
    /\ rows[i].selection = "home" /\ rows[j].selection = "away"
    /\ rows[i].line_value # None /\ rows[j].line_value # None
    /\ rows[i].line_value = -rows[j].line_value

SumToOne(f, g) == f[1] * g[2] + g[1] * f[2] = f[2] * g[2]

\* C22: where a book quotes home at L and away at -L on one spread, the
\* implied probabilities used for the two quotes are the vig-removed pair:
\* they sum to 1 and are not the raw implied probabilities.
C22_SpreadPairIsVigRemoved ==
    Called("get_devigged_probability") =>
        \A i, j \in 1..Len(arg.odds_snapshots) :
            SpreadPair(arg.odds_snapshots, i, j) =>
                /\ SumToOne(out[i], out[j])
                /\ out[i] # <<arg.odds_snapshots[i].implied_probability, 10000>>

\* a spread pair with L # 0 whose two quotes got their raw probabilities
C22_Witness ==
    /\ Called("get_devigged_probability")
    /\ \E i, j \in 1..Len(arg.odds_snapshots) :
          /\ SpreadPair(arg.odds_snapshots, i, j)
          /\ arg.odds_snapshots[i].line_value # 0
          /\ out[i] = <<arg.odds_snapshots[i].implied_probability, 10000>>
          /\ out[j] = <<arg.odds_snapshots[j].implied_probability, 10000>>
          /\ ~SumToOne(out[i], out[j])

\* the pairs the grouping does find: both sides of a total, of a moneyline
\* and of a pick'em spread (L = 0)
SameLinePairsAreVigRemoved ==
    Called("get_devigged_probability") =>
        \A i, j \in 1..Len(arg.odds_snapshots) :
            /\ i # j
            /\ arg.odds_snapshots[i].selection # ""
            /\ arg.odds_snapshots[j].selection # ""
            /\ arg.odds_snapshots[i].market_id = arg.odds_snapshots[j].market_id
            /\ arg.odds_snapshots[i].sportsbook = arg.odds_snapshots[j].sportsbook
            /\ arg.odds_snapshots[i].line_value = arg.odds_snapshots[j].line_value
            => SumToOne(out[i], out[j])


\* the threshold of the market class, in hundredths of a percent
MinEdgeOf(odds) ==
    IF odds.market_name \in {"spread", "total", "moneyline"} THEN edge_sides
    ELSE edge_props

\* a fair probability is available for the quote and its edge lies between
\* the threshold and the 20% cap
Qualifies(game, rows, odds) ==
    LET fair_prob == calculate_fair_probability(game, odds.market_name,
                                                odds.selection, odds.line_value)
        edge_pct == calculate_edge(fair_prob,
                        implied_prob_used(group_odds_for_vig_removal(rows), odds))
    IN  /\ fair_prob # None
        /\ edge_pct[1] >= MinEdgeOf(odds) * edge_pct[2]
        /\ edge_pct[1] <= 2000 * edge_pct[2]

Qualifying(game, rows) == SelectSeq(rows, LAMBDA odds : Qualifies(game, rows, odds))

\* C23: the signals generate_signals_for_game returns are, in order, one for
\* each quote with a fair probability and min_edge <= edge <= 20%, and none
\* for any other quote; so no signal has an edge below its threshold or above
\* the cap, and the quotes after a skipped one are still processed.
C23_SignalIffEdgeInRange ==
    Called("generate_signals_for_game") =>
        LET quotes == Qualifying(arg.game, arg.odds_snapshots)
        IN  /\ Len(out) = Len(quotes)
            /\ \A k \in 1..Len(out) :
                  /\ out[k].market_id = quotes[k].market_id
                  /\ out[k].sportsbook = quotes[k].sportsbook
                  /\ out[k].odds_american = quotes[k].odds_american
                  /\ out[k].line_value = quotes[k].line_value
                  /\ out[k].edge_percent >= MinEdgeOf(quotes[k])
                  /\ out[k].edge_percent <= 2000

\* the first quote is skipped for an edge above the cap, a later one is
\* emitted
C23_Witness ==
    /\ Called("generate_signals_for_game")
    /\ Len(arg.odds_snapshots) > 1
    /\ LET first == arg.odds_snapshots[1]
           fair_prob == calculate_fair_probability(arg.game, first.market_name,
                                                   first.selection, first.line_value)
           edge_pct == calculate_edge(fair_prob,
                           implied_prob_used(
                               group_odds_for_vig_removal(arg.odds_snapshots), first))
       IN  /\ fair_prob # None
           /\ edge_pct[1] > 2000 * edge_pct[2]
    /\ Len(out) = 1
    /\ out[1].market_id # arg.odds_snapshots[1].market_id



\* balance * kelly_fraction(fair_prob, decimal_odds, fraction) of odds_math,
\* to the cent
odds_math_stake(ag, signal) ==
    LET kelly_pct == kelly_fraction(Norm(signal.fair_probability),
                                    Norm(american_to_decimal(signal.odds_american)),
                                    Norm(<<ag.strategy.kelly_fraction, 100>>))
    IN  Round(<<ag.bankroll.balance * kelly_pct[1], kelly_pct[2]>>)

\* C25: the kelly_stake of calculate_stake is the bankroll balance times
\* odds_math.kelly_fraction(fair probability, decimal odds of the price,
\* strategy Kelly fraction).
C25_KellyStakeIsOddsMathKelly ==
    Called("calculate_stake") => out[1] = odds_math_stake(arg.agent, arg.signal)

\* the agent's kelly_stake is short of the odds_math stake by more than a cent
C25_Witness ==
    /\ Called("calculate_stake")
    /\ out[1] + 1 < odds_math_stake(arg.agent, arg.signal)

\* the agent's kelly_stake times the decimal odds is the odds_math stake, up
\* to the rounding of the two
StakeTimesDecimalOdds ==
    Called("calculate_stake") =>
        LET decimal == american_to_decimal(arg.signal.odds_american)
        IN  Abs(out[1] * decimal[1] - odds_math_stake(arg.agent, arg.signal) * decimal[2])
                <= decimal[1] + decimal[2]

\* C26: the confidence score lies in [0, 1], and with the signal otherwise
\* the same it does not increase when the time until the game increases.
C26_ScoreInRangeAndNotIncreasingInTime ==
    Called("calculate_confidence_score") =>
        /\ \A k \in 1..Len(out) : out[k] >= 0 /\ out[k] <= 100
        /\ applied = 2 /\ arg.hours[1] <= arg.hours[2] => out[2] <= out[1]

\* more time until the game, higher score
C26_Witness ==
    /\ Called("calculate_confidence_score")
    /\ applied = 2
    /\ arg.hours[1] < arg.hours[2]
    /\ out[2] > out[1]

ScoreInRange ==
    Called("calculate_confidence_score") =>
        \A k \in 1..Len(out) : out[k] >= 35 /\ out[k] <= 100

ScoreNotDecreasingInTime ==
    Called("calculate_confidence_score") /\ applied = 2 /\ arg.hours[1] <= arg.hours[2]
        => out[1] <= out[2]


\* ======================================================================
\* Properties of the retry helpers (checked under SpecCalc)
\* ======================================================================

Retrying == arg.fn \in {"fetch_with_backoff", "execute_with_retry"}

\* the wrapped operation was invoked at most max_retries times; a success is
\* the last invocation and is returned; an exception that is not retried is
\* the last invocation and is raised; max_retries retryable failures end in
\* an error
RetryContract ==
    /\ applied = Len(out.outcomes)
    /\ applied <= arg.max_retries
    /\ \A k \in 1..Len(out.outcomes) :
          /\ out.outcomes[k] = "ok" =>
                 k = Len(out.outcomes) /\ out.state = "returned" /\ out.result = "value"
          /\ out.outcomes[k] = "other" =>
                 k = Len(out.outcomes) /\ out.state = "raised"
    /\ Len(out.outcomes) = 1 /\ out.outcomes[1] = "other" => out.state = "raised"
    /\ /\ Len(out.outcomes) = arg.max_retries
       /\ arg.max_retries > 0
       /\ \A k \in 1..Len(out.outcomes) : out.outcomes[k] = "retryable"
       => out.state = "raised"
    /\ out.state = "raised" => out.outcomes # <<>>

\* C27: the retry helpers invoke the wrapped operation at most max_retries
\* times, return the result of the first success without a further call,
\* raise once max_retries retryable failures have occurred, raise an exception
\* that is not retryable at once, and never return normally without a result
\* of the operation, for every max_retries >= 0.
C27_RetryEndsWithResultOrError ==
    Retrying =>
        /\ RetryContract
        /\ out.state = "returned" =>
               out.result = "value" /\ out.outcomes # <<>>

\* a helper called with max_retries = 0 has returned None without a call
C27_Witness ==
    /\ Retrying
    /\ arg.max_retries = 0
    /\ out.state = "returned"
    /\ out.result = "None"
    /\ applied = 0

\* from max_retries = 1 on the helpers keep the whole contract
RetryFromOneEndsWithResultOrError ==
    Retrying /\ arg.max_retries >= 1 =>
        /\ RetryContract
        /\ out.state = "returned" => out.result = "value"
        /\ out.state = "running" => out.attempt < arg.max_retries


\* ======================================================================
\* Properties of settle_results_v2.main (checked under SpecCalc)
\* ======================================================================

\* the leagues of the run whose fetch returned completed games
LeaguesWithResults ==
    Cardinality({k \in 1..Len(arg.leagues) : arg.leagues[k] = "results"})

\* C29: a league whose results fetch fails or returns no completed game adds
\* nothing to the totals and does not abort main: every league of the list is
\* processed and the summary is printed.
C29_EmptyLeagueDoesNotAbortMain ==
    arg.fn = "main" =>
        /\ out.state # "raised"
        /\ out.state = "summary" =>
               /\ applied = Len(arg.leagues)
               /\ out.total_games = LeaguesWithResults
               /\ out.total_bets = 2 * LeaguesWithResults

\* main ended in KeyError at a league without results, a league left over
C29_Witness ==
    /\ arg.fn = "main"
    /\ out.state = "raised"
    /\ out.result = "KeyError"
    /\ applied < Len(arg.leagues)
    /\ arg.leagues[applied] \in {"fetch_failed", "no_results"}

\* main reaches its summary exactly when every league returned results
SummaryIffAllLeaguesHaveResults ==
    arg.fn = "main" /\ out.state # "running" =>
        (out.state = "summary" <=> LeaguesWithResults = Len(arg.leagues))

\* ======================================================================
\* Further properties of the paper betting agent (checked under Spec)
\* ======================================================================

\* the pending bets of the agent's list on games one of the signal's teams
\* plays in
OnSameTeams(tbl, signal) ==
    Len(SelectSeq(tbl, LAMBDA bet :
        {GameTeams(bet.game_id)[1], GameTeams(bet.game_id)[2]}
            \cap {signal.home_team_id, signal.away_team_id} # {}))

\* C24: with no pending bet on the signal's game, the correlation risk is
\* medium whenever at least two pending bets of the agent's list are on games
\* of the signal's home or away team, and low only when fewer than two are.
C24_TwoBetsOnSameTeamsIsMedium ==
    pc = "logged" =>
        LET signal == signals[candidates[idx]]
        IN  OnSameGame(agent.pending_bets, signal) = 0 =>
                /\ OnSameTeams(agent.pending_bets, signal) >= 2
                       => LastDecision.correlation_risk = "medium"
                /\ LastDecision.correlation_risk = "low"
                       => OnSameTeams(agent.pending_bets, signal) < 2

\* two pending bets on another game of the signal's home team, rated low
C24_Witness ==
    /\ pc = "logged"
    /\ OnSameGame(agent.pending_bets, signals[candidates[idx]]) = 0
    /\ OnSameTeams(agent.pending_bets, signals[candidates[idx]]) = 2
    /\ LastDecision.signal_id = signals[candidates[idx]].id
    /\ LastDecision.correlation_risk = "low"


\* ======================================================================
\* Further properties of the results settlement (checked under SpecSettle)
\* ======================================================================

\* the games of team t whose result has been processed
GamesProcessed(t) ==
    {g \in DOMAIN games : /\ games[g].status = "final"
                          /\ t \in {games[g].home_team_id, games[g].away_team_id}}

\* a turn of the results loop on a game an earlier run has made final
ReprocessKeepsElos ==
    /\ spc = "v2_loop"
    /\ sidx <= Len(todo)
    /\ sidx' = sidx + 1
    /\ find_game_by_teams_and_date(games, todo[sidx]) # None
    /\ games[find_game_by_teams_and_date(games, todo[sidx])].status = "final"
    => team_elos' = team_elos

\* C28: a result processed again by a later run leaves the stored ELO rating
\* and games_played of both teams as they were after the first processing.
C28_ResultAppliedToElosOnce == [][ReprocessKeepsElos]_vars

\* a team whose games_played counts one game twice
C28_Witness ==
    \E t \in DOMAIN team_elos :
        /\ Cardinality(GamesProcessed(t)) = 1
        /\ team_elos[t].games_played = 2
        /\ settleNo = 2


\* ======================================================================
\* Further properties of the library functions (checked under SpecCalc)
\* ======================================================================

\* C30: determine_bet_outcome gives void for every spread or total bet whose
\* line_value is None; such a bet is not graded against a substituted line.
C30_MissingLineIsVoid ==
    Called("settled_row") =>
        (arg.bet.market_name \in {"spread", "total"} /\ arg.bet.line_value = None
            => out.result = "void")

\* a spread bet without a line graded as a win against the line 0
C30_Witness ==
    /\ Called("settled_row")
    /\ arg.bet.market_name = "spread"
    /\ arg.bet.line_value = None
    /\ arg.home_score > arg.away_score
    /\ out.result = "win"
    /\ out.profit_loss > 0

\* a bet without a line is graded as a bet at the line 0 is
MissingLineGradedAtZero ==
    Called("settled_row") /\ arg.bet.line_value = None =>
        out.result = determine_bet_outcome([arg.bet EXCEPT !.line_value = 0],
                                           arg.home_score, arg.away_score)

====
